---- MODULE Spec2Model ----
(***************************************************************************)
(* Verification model of the asi-core bounty pipeline: the task lifecycle  *)
(* clients (scripts/, task-system/), the TaskRegistry ledger they call,    *)
(* the verifier service and the ticket verifier with its mock ledger.      *)
(***************************************************************************)
EXTENDS Integers, Sequences, FiniteSets, TLC

(***************************************************************************)
(* Bounds                                                                  *)
(***************************************************************************)
\* largest value of the clock (block time and time.time())
MaxTime == 2
\* largest number of automated checks a verification report records
MaxChecks == 3
\* largest number of calls the mock web3 client records
MaxCalls == 2

(***************************************************************************)
(* Values                                                                  *)
(***************************************************************************)
\* contributor accounts (self.account.address)
Accounts == {"alice", "bob"}
\* the claimer of a task nobody has claimed (address(0))
ZeroAddress == "0x0"
\* evidence CIDs a contributor may submit
EvidenceCids == {"cid1", "cid2"}
\* report CIDs the content store may return for a pinned report
ReportCids == {"rep1", "rep2"}
\* configured submit windows of the registry, 0 = unbounded
SubmitWindows == {0, 1}

\* ledger status codes
Open == 0
Claimed == 1
Submitted == 2
Approved == 3
Paid == 4
Reopened == 5

\* bytes32 values: the all-zero word and Web3.keccak(text=s)
ZeroBytes32 == [zero |-> TRUE, text |-> ""]
keccak(s) == [zero |-> FALSE, text |-> s]

VARIABLES
    task,          \* the TaskRegistry record of the task
    now,           \* the clock
    submitWindow,  \* the registry's configured submit window
    call,          \* per account: the client call in progress or last finished
    approval,      \* the receipt of the last approveTask transaction mined
    svc,           \* TaskVerifierService: the submission being processed
    oryn,          \* TicketVerifier and VerifierDaemon with their mock clients
    packager       \* EvidencePackager: the task sheet and the last package

vars == <<task, now, submitWindow, call, approval, svc, oryn, packager>>

\* what a contributor's client call never writes
env == <<now, submitWindow, approval, svc, oryn, packager>>

(***************************************************************************)
(* TaskRegistry ledger (contract; transitions of the lifecycle, 4.1)       *)
(***************************************************************************)
NewTask == [status |-> Open, claimer |-> ZeroAddress, submitDeadline |-> 0,
            evidenceCID |-> ZeroBytes32, verifierReportCID |-> ZeroBytes32,
            createdAt |-> 1]

\* what getTask reads for a task_id the ledger has never seen
NoTask == [NewTask EXCEPT !.createdAt = 0]

\* createTask(task_id, spec_cid, bounty): task_id is unique on the ledger
createTask(t) ==
    IF t.createdAt # 0 THEN [task |-> t, err |-> "TaskExists"]
    ELSE [task |-> NewTask, err |-> "ok"]

Result(t, e) == [task |-> t, err |-> e]

\* claimTask(task_id) sent by caller
claimTask(t, caller, time, window) ==
    IF t.status = Open
    THEN Result([t EXCEPT !.status = Claimed, !.claimer = caller,
                          !.submitDeadline = IF window = 0 THEN 0 ELSE time + window],
                "ok")
    ELSE Result(t, "InvalidState")

\* a reopening that keeps the claimer
ReopenedTask_keeps_claimer(t) == [t EXCEPT !.status = Reopened, !.submitDeadline = 0]

\* the task as it is after a missed deadline
ReopenedTask(t) == [t EXCEPT !.status = Reopened, !.claimer = ZeroAddress,
                             !.submitDeadline = 0]

\* submitEvidence without the test of the caller
submitEvidence_any_caller(t, caller, cidHash, time) ==
    IF t.status # Claimed THEN Result(t, "InvalidState")
    ELSE IF t.submitDeadline > 0 /\ time > t.submitDeadline
         THEN Result(ReopenedTask(t), "DeadlineExceeded")
    ELSE Result([t EXCEPT !.status = Submitted, !.evidenceCID = cidHash], "ok")

\* submitEvidence(task_id, evidence_cid) sent by caller
submitEvidence(t, caller, cidHash, time) ==
    IF t.status # Claimed THEN Result(t, "InvalidState")
    ELSE IF caller # t.claimer THEN Result(t, "Unauthorized")
    ELSE IF t.submitDeadline > 0 /\ time > t.submitDeadline
         THEN Result(ReopenedTask(t), "DeadlineExceeded")
    ELSE Result([t EXCEPT !.status = Submitted, !.evidenceCID = cidHash], "ok")

\* approveTask that does not record the report
approveTask_without_report(t, reportHash) ==
    IF t.status = Submitted
    THEN Result([t EXCEPT !.status = Approved], "ok")
    ELSE IF t.status = Approved /\ t.verifierReportCID = reportHash
         THEN Result(t, "ok")
    ELSE Result(t, "InvalidState")

\* approveTask(task_id, report_cid)
approveTask(t, reportHash) ==
    IF t.status = Submitted
    THEN Result([t EXCEPT !.status = Approved, !.verifierReportCID = reportHash], "ok")
    ELSE IF t.status = Approved /\ t.verifierReportCID = reportHash
         THEN Result(t, "ok")
    ELSE Result(t, "InvalidState")

\* payout(task_id) sent by caller
payout(t, caller) ==
    IF t.status # Approved THEN Result(t, "InvalidState")
    ELSE IF caller # t.claimer THEN Result(t, "Unauthorized")
    ELSE Result([t EXCEPT !.status = Paid], "ok")

(***************************************************************************)
(* Client helpers                                                          *)
(***************************************************************************)
\* scripts/submit_evidence.py get_task_status: status_names
status_names == <<"Open", "Claimed", "Submitted", "Approved", "Paid", "Reopened">>

\* EvidenceSubmitter.get_task_status: the dict built from the ledger record
get_task_status(t, a) ==
    [status |-> IF t.status < Len(status_names) THEN status_names[t.status + 1]
                ELSE "Unknown",
     status_code |-> t.status,
     claimer |-> t.claimer,
     is_mine |-> t.claimer = a]

\* result[k].hex() if result[k] != b'\x00' * 32 else None
None == [zero |-> TRUE, text |-> "None"]
hex_or_None(bytes32) == IF bytes32 # ZeroBytes32 THEN bytes32 ELSE None

\* task-system/submit_evidence.py get_task_status: status_names
registry_status_names == <<"Available", "Claimed", "Submitted", "Approved", "Rejected">>

\* TaskRegistryClient.get_task_status: the dict built from getTask
registry_get_task_status(t) ==
    [status |-> IF t.status < Len(registry_status_names)
                THEN registry_status_names[t.status + 1] ELSE "Unknown",
     status_code |-> t.status,
     claimer |-> t.claimer,
     submit_deadline |-> t.submitDeadline,
     evidence_cid |-> hex_or_None(t.evidenceCID),
     verifier_report_cid |-> hex_or_None(t.verifierReportCID)]

Idle == [fn |-> "none", pc |-> "idle", cid |-> "", dry |-> FALSE,
         sent |-> FALSE, err |-> "none", ret |-> FALSE]

\* a client call of a that starts at program point p
Begin(f, p, c, d) == [fn |-> f, pc |-> p, cid |-> c, dry |-> d,
                      sent |-> FALSE, err |-> "none", ret |-> FALSE]

\* the ledger operation a client function is about
ClaimFns == {"claim_task", "contributor_workflow"}
SubmitFns == {"submit_evidence", "submit_workflow", "registry_submit_evidence",
              "tool_submit_evidence"}
PayoutFns == {"claim_payout", "payout_workflow"}
OperationOf(fn) == IF fn \in ClaimFns THEN "claim"
                   ELSE IF fn \in SubmitFns THEN "submit"
                   ELSE IF fn \in PayoutFns THEN "payout"
                   ELSE fn

\* the call of a has returned r: s tells whether a transaction was sent, e is
\* the ledger's answer to it or, with no transaction sent, the message printed;
\* of the function only the operation it was about is kept
Return(a, s, e, r) == [call EXCEPT ![a].pc = "done", ![a].fn = OperationOf(@),
                                   ![a].cid = "", ![a].dry = FALSE,
                                   ![a].sent = s, ![a].err = e, ![a].ret = r]

Goto(a, p) == [call EXCEPT ![a].pc = p]

\* a receipt read as a success whatever its status
receipt_ok_always(err) == TRUE

\* receipt['status'] == 1
receipt_ok(err) == err = "ok"

\* build, sign, send the transaction and wait for the receipt:
\*   dropped: an exception before send_raw_transaction
\*   mined:   the transaction is mined and the receipt read
\*   lost:    the transaction is mined, waiting for the receipt raises
TxOutcomes == {"dropped", "mined", "lost"}

send_transaction(a, res) ==
    \E outcome \in TxOutcomes :
        \/ /\ outcome = "dropped"
           /\ call' = Return(a, FALSE, "exception", FALSE)
           /\ task' = task
        \/ /\ outcome = "mined"
           /\ call' = Return(a, TRUE, res.err, receipt_ok(res.err))
           /\ task' = res.task
        \/ /\ outcome = "lost"
           /\ call' = Return(a, TRUE, res.err, FALSE)
           /\ task' = res.task

(***************************************************************************)
(* scripts/submit_evidence.py: EvidenceSubmitter                           *)
(***************************************************************************)
\* claim_task without the status test
claim_task_unchecked(status) == TRUE

\* claim_task: "if status != 0" lets the call go on
claim_task_available(status) == status = 0

\* claim_payout: "if status != 3" lets the call go on
claim_payout_approved(status) == status = 3

CanStart(a) == call[a].pc \in {"idle", "done"}

\* claim_task(task_id) is called
claim_task(a) ==
    /\ CanStart(a)
    /\ call' = [call EXCEPT ![a] = Begin("claim_task", "check", "", FALSE)]
    /\ UNCHANGED <<task, env>>

\* claim_task: tasks(task_hash).call() and the status test
claim_task_check(a) ==
    /\ call[a].fn \in {"claim_task", "contributor_workflow"}
    /\ call[a].pc = "check"
    /\ \E rpc_ok \in BOOLEAN :
          call' = IF ~rpc_ok THEN Return(a, FALSE, "exception", FALSE)
                  ELSE IF claim_task_available(task.status) THEN Goto(a, "send")
                  ELSE Return(a, FALSE, "not_available", FALSE)
    /\ UNCHANGED <<task, env>>

\* claim_task: the claimTask transaction
claim_task_send(a) ==
    /\ call[a].fn \in {"claim_task", "contributor_workflow"}
    /\ call[a].pc = "send"
    /\ send_transaction(a, claimTask(task, a, now, submitWindow))
    /\ UNCHANGED env

\* submit_evidence(task_id, evidence_cid) is called
submit_evidence(a) ==
    /\ CanStart(a)
    /\ \E c \in EvidenceCids :
          call' = [call EXCEPT ![a] = Begin("submit_evidence", "send", c, FALSE)]
    /\ UNCHANGED <<task, env>>

\* submit_evidence: the submitTask transaction
submit_evidence_send(a) ==
    /\ call[a].fn \in {"submit_evidence", "submit_workflow"}
    /\ call[a].pc = "send"
    /\ send_transaction(a, submitEvidence(task, a, keccak(call[a].cid), now))
    /\ UNCHANGED env

\* claim_payout(task_id) is called
claim_payout(a) ==
    /\ CanStart(a)
    /\ call' = [call EXCEPT ![a] = Begin("claim_payout", "check", "", FALSE)]
    /\ UNCHANGED <<task, env>>

\* claim_payout: tasks(task_hash).call() and the status test
claim_payout_check(a) ==
    /\ call[a].fn \in {"claim_payout", "payout_workflow"}
    /\ call[a].pc = "check"
    /\ \E rpc_ok \in BOOLEAN :
          call' = IF ~rpc_ok THEN Return(a, FALSE, "exception", FALSE)
                  ELSE IF claim_payout_approved(task.status) THEN Goto(a, "send")
                  ELSE Return(a, FALSE, "not_approved", FALSE)
    /\ UNCHANGED <<task, env>>

\* claim_payout: the payout transaction
claim_payout_send(a) ==
    /\ call[a].fn \in {"claim_payout", "payout_workflow"}
    /\ call[a].pc = "send"
    /\ send_transaction(a, payout(task, a))
    /\ UNCHANGED env

(***************************************************************************)
(* scripts/workflow_manager.py: WorkflowManager                            *)
(***************************************************************************)
\* contributor_workflow: the status test before claim_task
contributor_workflow_guard(status) ==
    IF status.status # "Open" THEN "not_available" ELSE "go"

\* submit_workflow: the ownership and status tests
submit_workflow_guard(status) ==
    IF ~status.is_mine THEN "not_mine"
    ELSE IF status.status # "Claimed" THEN "not_claimed"
    ELSE "go"

\* payout_workflow: the ownership and status tests
payout_workflow_guard(status) ==
    IF ~status.is_mine THEN "not_mine"
    ELSE IF status.status # "Approved" THEN "not_approved"
    ELSE "go"

\* a workflow's step 1: get_task_status returned None, a guard failed, or
\* the workflow goes on at program point p
workflow_step(a, rpc_ok, guard, p) ==
    IF ~rpc_ok THEN Return(a, FALSE, "not_found", FALSE)
    ELSE IF guard = "go" THEN Goto(a, p)
    ELSE Return(a, FALSE, guard, FALSE)

\* a workflow is called
workflow_start(a) ==
    /\ CanStart(a)
    /\ \E f \in {"contributor_workflow", "submit_workflow", "payout_workflow"} :
          call' = [call EXCEPT ![a] = Begin(f, "status", "", FALSE)]
    /\ UNCHANGED <<task, env>>

\* contributor_workflow: step 1, get_task_status, then claim_task
contributor_workflow(a) ==
    /\ call[a].fn = "contributor_workflow"
    /\ call[a].pc = "status"
    /\ \E rpc_ok \in BOOLEAN :
          call' = workflow_step(a, rpc_ok,
                                contributor_workflow_guard(get_task_status(task, a)),
                                "check")
    /\ UNCHANGED <<task, env>>

\* submit_workflow: step 1, get_task_status, and step 2, the package
submit_workflow(a) ==
    /\ call[a].fn = "submit_workflow"
    /\ call[a].pc = "status"
    /\ \E rpc_ok \in BOOLEAN :
          call' = workflow_step(a, rpc_ok,
                                submit_workflow_guard(get_task_status(task, a)), "pin")
    /\ UNCHANGED <<task, env>>

\* submit_workflow: step 3, ipfs.pin_file, then submit_evidence
submit_workflow_pin(a) ==
    /\ call[a].fn = "submit_workflow"
    /\ call[a].pc = "pin"
    /\ \/ call' = Return(a, FALSE, "pin_failed", FALSE)
       \/ \E c \in EvidenceCids :
             call' = [call EXCEPT ![a].pc = "send", ![a].cid = c]
    /\ UNCHANGED <<task, env>>

\* payout_workflow: step 1, get_task_status, then claim_payout
payout_workflow(a) ==
    /\ call[a].fn = "payout_workflow"
    /\ call[a].pc = "status"
    /\ \E rpc_ok \in BOOLEAN :
          call' = workflow_step(a, rpc_ok,
                                payout_workflow_guard(get_task_status(task, a)),
                                "check")
    /\ UNCHANGED <<task, env>>

(***************************************************************************)
(* task-system/submit_evidence.py: TaskRegistryClient                      *)
(***************************************************************************)
\* TaskRegistryClient.submit_evidence that tests dry_run before the status
submit_evidence_guard_dry_run_first(a, task_status, current_time, dry_run) ==
    IF dry_run THEN "dry_run"
    ELSE IF task_status.claimer # a THEN "not_claimer"
    ELSE IF task_status.status_code # 1 THEN "not_claimed"
    ELSE IF task_status.submit_deadline > 0 /\ current_time > task_status.submit_deadline
         THEN "deadline"
    ELSE "send"

\* TaskRegistryClient.submit_evidence: the tests made on the status dict
\* before the transaction is built, in the order of the code
submit_evidence_guard(a, task_status, current_time, dry_run) ==
    IF task_status.claimer # a THEN "not_claimer"
    ELSE IF task_status.status_code # 1 THEN "not_claimed"
    ELSE IF task_status.submit_deadline > 0 /\ current_time > task_status.submit_deadline
         THEN "deadline"
    ELSE IF dry_run THEN "dry_run"
    ELSE "send"

\* TaskRegistryClient.submit_evidence(task_id, evidence_cid, dry_run) is called
registry_submit_evidence(a) ==
    /\ CanStart(a)
    /\ \E c \in EvidenceCids, d \in BOOLEAN :
          call' = [call EXCEPT ![a] = Begin("registry_submit_evidence", "status", c, d)]
    /\ UNCHANGED <<task, env>>

\* TaskRegistryClient.submit_evidence: get_task_status and the guards
registry_submit_evidence_check(a) ==
    /\ call[a].fn \in {"registry_submit_evidence", "tool_submit_evidence"}
    /\ call[a].pc = "status"
    /\ \E rpc_ok \in BOOLEAN :
          LET g == submit_evidence_guard(a, registry_get_task_status(task), now,
                                         call[a].dry)
          IN  call' = IF ~rpc_ok THEN Return(a, FALSE, "not_found", FALSE)
                      ELSE IF g = "send" THEN Goto(a, "send")
                      ELSE Return(a, FALSE, g, g = "dry_run")
    /\ UNCHANGED <<task, env>>

\* TaskRegistryClient.submit_evidence: the submitEvidence transaction
registry_submit_evidence_send(a) ==
    /\ call[a].fn \in {"registry_submit_evidence", "tool_submit_evidence"}
    /\ call[a].pc = "send"
    /\ send_transaction(a, submitEvidence(task, a, keccak(call[a].cid), now))
    /\ UNCHANGED env

(***************************************************************************)
(* task-system/submit_evidence.py: EvidenceSubmissionTool                  *)
(***************************************************************************)
\* EvidenceSubmissionTool.submit_evidence is called: the evidence package is
\* built and saved
tool_submit_evidence(a) ==
    /\ CanStart(a)
    /\ \E d \in BOOLEAN :
          call' = [call EXCEPT ![a] = Begin("tool_submit_evidence", "pin", "", d)]
    /\ UNCHANGED <<task, env>>

\* EvidenceSubmissionTool.submit_evidence: ipfs.pin_json, then
\* registry.submit_evidence
tool_submit_evidence_pin(a) ==
    /\ call[a].fn = "tool_submit_evidence"
    /\ call[a].pc = "pin"
    /\ \/ call' = Return(a, FALSE, "pin_failed", FALSE)
       \/ \E c \in EvidenceCids :
             call' = [call EXCEPT ![a].pc = "status", ![a].cid = c]
    /\ UNCHANGED <<task, env>>

(***************************************************************************)
(* The ledger's environment                                                *)
(***************************************************************************)
\* time passes
Tick ==
    /\ now < MaxTime
    /\ now' = now + 1
    /\ UNCHANGED <<task, submitWindow, call, approval, svc, oryn, packager>>

\* the sweeper reopens a Claimed task whose submit deadline was missed
ExpireClaim ==
    /\ task.status = Claimed
    /\ task.submitDeadline > 0
    /\ now > task.submitDeadline
    /\ task' = ReopenedTask(task)
    /\ UNCHANGED <<now, submitWindow, call, approval, svc, oryn, packager>>

\* a Reopened task is offered again
Relist ==
    /\ task.status = Reopened
    /\ task' = [task EXCEPT !.status = Open]
    /\ UNCHANGED <<now, submitWindow, call, approval, svc, oryn, packager>>

\* the receipt of an approveTask(report_cid) transaction mined on task t
Receipt(t, report_cid) ==
    [report_cid |-> report_cid, state |-> "mined",
     err |-> approveTask(t, keccak(report_cid)).err]

NoReceipt == [report_cid |-> "", state |-> "none", err |-> "none"]

\* a verifier sends an approveTask transaction
VerifierSends ==
    /\ approval.state # "pending"
    /\ \E r \in ReportCids :
          approval' = [report_cid |-> r, state |-> "pending", err |-> "none"]
    /\ UNCHANGED <<task, now, submitWindow, call, svc, oryn, packager>>

\* the approveTask transaction of the verifier is mined
VerifierApproves ==
    /\ approval.state = "pending"
    /\ task' = approveTask(task, keccak(approval.report_cid)).task
    /\ approval' = Receipt(task, approval.report_cid)
    /\ UNCHANGED <<now, submitWindow, call, svc, oryn, packager>>

(***************************************************************************)
(* task-system/verifier_service.py: TaskVerifierService                    *)
(***************************************************************************)
\* _calculate_overall_status that takes a report without checks as passed
calculate_overall_status_vacuous(github_passed, github_total, content_passed, content_total) ==
    LET total_checks == github_total + content_total
        total_passed == github_passed + content_passed
    IN  IF total_passed = total_checks THEN "pass"
        ELSE IF 5 * total_passed >= 4 * total_checks THEN "partial"
        ELSE "fail"

\* TaskValidator._calculate_overall_status on the recorded checks
\* (total_passed >= total_checks * 0.8 in fifths)
calculate_overall_status(github_passed, github_total, content_passed, content_total) ==
    LET total_checks == github_total + content_total
        total_passed == github_passed + content_passed
    IN  IF total_checks = 0 THEN "partial"
        ELSE IF total_passed = total_checks THEN "pass"
        ELSE IF 5 * total_passed >= 4 * total_checks THEN "partial"
        ELSE "fail"

\* process_task_submission: "if report.overall_status == 'pass' and self.blockchain"
submit_to_blockchain(overall_status, blockchain) == overall_status = "pass" /\ blockchain

\* the private keys a ReportSigner may hold (loaded or generated)
SignerKeys == {"k1", "k2"}

\* ReportSigner.get_public_key_hex
get_public_key_hex(private_key) ==
    CASE private_key = "k1" -> "pub1"
      [] private_key = "k2" -> "pub2"

\* the signature field of a report that is not signed (signature="")
NoSignature == [by |-> "", over |-> <<>>]

\* private_key.sign(message): the Ed25519 signature of message
sign(private_key, message) == [by |-> private_key, over |-> message]

\* public_key.verify(signature, message)
verify_signature(pubkey_hex, signature, message) ==
    /\ signature.by \in SignerKeys
    /\ get_public_key_hex(signature.by) = pubkey_hex
    /\ signature.over = message

\* validate_task: the report as it is initialized; of the fields of
\* VerificationReport the check results are kept in overall_status
NewReport(task_id, time) ==
    [task_id |-> task_id, verifier_pubkey |-> "", verified_at |-> time,
     overall_status |-> "fail", notes |-> "", signature |-> NoSignature]

\* asdict(report): the dict as the list of its items, in the order of the
\* dataclass's fields
asdict(report) ==
    << <<"task_id", report.task_id>>,
       <<"verifier_pubkey", report.verifier_pubkey>>,
       <<"verified_at", report.verified_at>>,
       <<"overall_status", report.overall_status>>,
       <<"notes", report.notes>>,
       <<"signature", report.signature>> >>

\* report_dict.pop(key, None)
dict_pop(items, key) == SelectSeq(items, LAMBDA item : item[1] # key)

\* the field names in the order sort_keys gives them
SortedKeys == <<"notes", "overall_status", "signature", "task_id", "verified_at",
                "verifier_pubkey">>

\* json.dumps(report_dict, sort_keys=True, separators=(',', ':')): the items
\* in the order of their keys
json_dumps_sorted(items) ==
    LET present == SelectSeq(SortedKeys,
                             LAMBDA k : \E i \in DOMAIN items : items[i][1] = k)
    IN  [n \in DOMAIN present |->
            items[CHOOSE i \in DOMAIN items : items[i][1] = present[n]]]

\* sign_report with the signature left in the serialized dict
canonical_json_with_signature(report) == json_dumps_sorted(asdict(report))

\* sign_report: the canonical JSON that is signed
canonical_json(report) == json_dumps_sorted(dict_pop(asdict(report), "signature"))

\* a sign_report that serializes the report before it writes the public key
sign_report_serialize_first(private_key, report) ==
    [report EXCEPT !.verifier_pubkey = get_public_key_hex(private_key),
                   !.signature = sign(private_key, canonical_json(report))]

\* ReportSigner.sign_report(report): the report after the call
sign_report(private_key, report) ==
    LET with_key == [report EXCEPT !.verifier_pubkey = get_public_key_hex(private_key)]
    IN  [with_key EXCEPT !.signature = sign(private_key, canonical_json(with_key))]

\* the checks validate_task records in report.github_checks and
\* report.content_checks, as counts, and whether validation raised
NoChecks == [github_passed |-> 0, github_total |-> 0, content_passed |-> 0,
             content_total |-> 0, raised |-> FALSE]

\* TaskVerifierService before any submission is processed; mempool holds the
\* approveTask transactions sent and not yet mined, cancelled says that the
\* task running process_task_submission was cancelled, checks what the
\* validation of the submission at hand records
SvcIdle == [pc |-> "idle", blockchain |-> FALSE, overall_status |-> "fail",
            signed |-> FALSE, report_cid |-> "", approve_sent |-> FALSE,
            ret |-> FALSE, mempool |-> {},
            key |-> "k1", report |-> NewReport("", 0), loop |-> "none",
            cancelled |-> FALSE, checks |-> NoChecks]

SvcReturn(r) == [svc EXCEPT !.pc = "done", !.ret = r]

\* process_task_submission(submission) is called on a service built with or
\* without a blockchain client
process_task_submission ==
    /\ svc.pc \in {"idle", "done"}
    /\ \E b \in BOOLEAN :
          svc' = [SvcIdle EXCEPT !.pc = "load", !.blockchain = b,
                                 !.mempool = svc.mempool, !.key = svc.key,
                                 !.loop = svc.loop]
    /\ UNCHANGED <<task, now, submitWindow, call, approval, oryn, packager>>

\* process_task_submission: _load_task_sheet
load_task_sheet ==
    /\ svc.pc = "load"
    /\ \E found \in BOOLEAN :
          svc' = IF found THEN [svc EXCEPT !.pc = "validate"] ELSE SvcReturn(FALSE)
    /\ UNCHANGED <<task, now, submitWindow, call, approval, oryn, packager>>

\* process_task_submission: validate_task, then sign_report
validate_task ==
    /\ svc.pc = "validate"
    /\ \E raised \in BOOLEAN, gt \in 0..MaxChecks, ct \in 0..MaxChecks :
       \E gp \in 0..gt, cp \in 0..ct :
          LET overall_status == IF raised THEN "fail"
                                ELSE calculate_overall_status(gp, gt, cp, ct)
              report == [NewReport("M1-T001", now) EXCEPT
                            !.overall_status = overall_status,
                            !.notes = IF raised THEN "Validation error" ELSE ""]
          IN  svc' = [svc EXCEPT !.pc = "pin",
                                 !.overall_status = overall_status,
                                 !.report = sign_report(svc.key, report),
                                 !.signed = TRUE]
    /\ UNCHANGED <<task, now, submitWindow, call, approval, oryn, packager>>

\* process_task_submission: ipfs.pin_json and the tests that follow it
pin_json ==
    /\ svc.pc = "pin"
    /\ \E report_cid \in ReportCids \cup {""} :
          svc' = IF report_cid = "" THEN SvcReturn(FALSE)
                 ELSE IF submit_to_blockchain(svc.overall_status, svc.blockchain)
                      THEN [svc EXCEPT !.pc = "approve", !.report_cid = report_cid]
                 ELSE [svc EXCEPT !.pc = "done", !.report_cid = report_cid,
                                  !.ret = TRUE]
    /\ UNCHANGED <<task, now, submitWindow, call, approval, oryn, packager>>

\* the steps of process_task_submission inside blockchain.approve_task
ApproveSteps == {"approve", "approve_wait"}

\* process_task_submission: blockchain.approve_task, which returns the hash
\* of the sent transaction without waiting for it, or "" when sending
\* raised; send_raw_transaction may also deliver the transaction and not
\* answer, and then the call is still open
approve_task ==
    /\ svc.pc = "approve"
    /\ \E outcome \in {"sent", "raised", "no_answer"} :
          svc' = CASE outcome = "sent" ->
                          [svc EXCEPT !.pc = "done", !.ret = TRUE,
                                      !.approve_sent = TRUE,
                                      !.mempool = @ \cup {svc.report_cid}]
                   [] outcome = "raised" -> SvcReturn(FALSE)
                   [] outcome = "no_answer" ->
                          [svc EXCEPT !.pc = "approve_wait",
                                      !.mempool = @ \cup {svc.report_cid}]
    /\ UNCHANGED <<task, now, submitWindow, call, approval, oryn, packager>>

\* blockchain.approve_task: the open send_raw_transaction times out, the
\* exception is caught and "" returned, and process_task_submission returns
\* False
approve_task_timeout ==
    /\ svc.pc = "approve_wait"
    /\ svc' = SvcReturn(FALSE)
    /\ UNCHANGED <<task, now, submitWindow, call, approval, oryn, packager>>

\* the awaits of process_task_submission: _load_task_sheet, validate_task,
\* ipfs.pin_json and blockchain.approve_task
AwaitSteps == {"load", "validate", "pin"} \cup ApproveSteps

\* process_task_submission with CancelledError caught as validate_task's
\* "except Exception" catches an error of a check: the report of the checks
\* run so far is marked as failed, signed and handed on
process_cancelled_caught ==
    /\ svc.pc = "validate"
    /\ LET report == [NewReport("M1-T001", now) EXCEPT
                         !.overall_status = "fail", !.notes = "Validation error"]
       IN  svc' = [svc EXCEPT !.pc = "pin", !.overall_status = "fail",
                              !.report = sign_report(svc.key, report),
                              !.signed = TRUE, !.cancelled = TRUE]
    /\ UNCHANGED <<task, now, submitWindow, call, approval, oryn, packager>>

\* the task running process_task_submission is cancelled at one of its
\* awaits: CancelledError is no Exception, so no handler of the pipeline
\* catches it and the call is left with what it had built; a transaction
\* that send_raw_transaction was sending may have been delivered
process_cancelled ==
    /\ svc.pc \in AwaitSteps
    /\ \E delivered \in BOOLEAN :
          /\ delivered => svc.pc = "approve"
          /\ svc' = [svc EXCEPT !.pc = "cancelled", !.cancelled = TRUE,
                                !.mempool = IF delivered
                                            THEN @ \cup {svc.report_cid} ELSE @]
    /\ UNCHANGED <<task, now, submitWindow, call, approval, oryn, packager>>

\* an approveTask transaction of the service is mined
approve_mined ==
    /\ \E r \in svc.mempool :
          /\ task' = approveTask(task, keccak(r)).task
          /\ approval' = Receipt(task, r)
          /\ svc' = [svc EXCEPT !.mempool = @ \ {r}]
    /\ UNCHANGED <<now, submitWindow, call, oryn, packager>>

\* a contributor's claimTask, submitEvidence or payout transaction is mined
ContributorTx ==
    /\ \E a \in Accounts, c \in EvidenceCids :
          \/ task' = claimTask(task, a, now, submitWindow).task
          \/ task' = submitEvidence(task, a, keccak(c), now).task
          \/ task' = payout(task, a).task
    /\ UNCHANGED <<now, submitWindow, call, approval, svc, oryn, packager>>

(***************************************************************************)
(* oryn-verifier/ticket_verifier.py: TicketVerifier, VerifierDaemon        *)
(***************************************************************************)
\* VerifierDaemon._check_for_new_submissions: simulated_submissions
simulated_submissions ==
    << [ticket_id |-> "ticket_001", evidence_cid |-> "QmExample123"],
       [ticket_id |-> "ticket_002", evidence_cid |-> "QmExample456"] >>

\* the description of an evidence document: a text that mentions the
\* documentation, a text that does not, or a value that is not a text
Descriptions == {"documented", "plain", "not_text"}

\* what the checks read of an evidence document
Evidences == [github_pr : BOOLEAN, tests_passing : BOOLEAN, description : Descriptions]

\* _fetch_evidence: the document returned when the get fails
fallback_evidence == [github_pr |-> TRUE, tests_passing |-> TRUE, description |-> "plain"]

\* _fetch_evidence: what is handed to the checks, the stored document when
\* get_json finds the CID and the fallback document when it raises
fetch_evidence ==
    {[fetched |-> "found", evidence |-> e] : e \in Evidences}
       \cup {[fetched |-> "not_found", evidence |-> fallback_evidence]}

\* _fetch_ticket_spec: fallback_spec (category and evidence_requirements)
fallback_spec ==
    [category |-> "security",
     evidence_requirements |-> {"code_review", "tests_passing", "security_audit",
                                "documentation"}]

\* _load_config: check_weights, in hundredths
check_weights ==
    [code_review |-> 30, tests_passing |-> 25, documentation |-> 20,
     accessibility |-> 15, security_scan |-> 10]

CheckNames == {"code_review", "tests_passing", "documentation", "accessibility",
               "security_scan"}

\* _load_config: quality_threshold, in hundredths
quality_threshold == 70

\* _load_config without a config file: default_config
default_config == [check_weights |-> check_weights, quality_threshold |-> quality_threshold]

\* _calculate_overall_score: check_weights.get(check_name, 0.1), in hundredths
default_weight == 10

\* the result dict of one check, score in hundredths
CheckResult(p, sc) == [passed |-> p, score |-> sc]

check_code_review(e) == IF e.github_pr THEN CheckResult(TRUE, 85) ELSE CheckResult(FALSE, 0)
check_tests(e) == CheckResult(e.tests_passing, IF e.tests_passing THEN 100 ELSE 0)
\* _check_documentation: a word of the documentation is in the description
has_docs(description) == description = "documented"

check_documentation(e) ==
    CheckResult(has_docs(e.description), IF has_docs(e.description) THEN 90 ELSE 30)

\* the check raises on this evidence: _check_documentation calls lower() on
\* the description
check_raises(n, e) == n = "documentation" /\ e.description = "not_text"
check_security(e) == CheckResult(TRUE, 90)
check_accessibility(e) == CheckResult(TRUE, 80)

\* _perform_verification_checks: the names of the checks that are run
checks_performed(spec) ==
    ({"code_review", "tests_passing", "documentation"} \cap spec.evidence_requirements)
    \cup (IF spec.category = "security" THEN {"security_scan"} ELSE {})
    \cup (IF spec.category = "ui" THEN {"accessibility"} ELSE {})

\* _perform_verification_checks: the results dict
perform_verification_checks(e, spec) ==
    [n \in checks_performed(spec) |->
        CASE n = "code_review" -> check_code_review(e)
          [] n = "tests_passing" -> check_tests(e)
          [] n = "documentation" -> check_documentation(e)
          [] n = "security_scan" -> check_security(e)
          [] n = "accessibility" -> check_accessibility(e)]

\* a weight lookup without the fallback: an unconfigured check weighs nothing
weight_without_fallback(config, n) ==
    IF n \in DOMAIN config.check_weights THEN config.check_weights[n] ELSE 0

\* _calculate_overall_score: self.config["check_weights"].get(check_name, 0.1)
weight_of(config, n) ==
    IF n \in DOMAIN config.check_weights THEN config.check_weights[n] ELSE default_weight

RECURSIVE SumOver(_, _)
SumOver(f, S) ==
    IF S = {} THEN 0
    ELSE LET n == CHOOSE x \in S : TRUE IN f[n] + SumOver(f, S \ {n})

\* an aggregation that divides by the weight of all configured checks
\* instead of the executed ones
calculate_score_over_configured(config, checks_results) ==
    LET names == DOMAIN checks_results
        total_score ==
            SumOver([n \in names |-> checks_results[n].score * weight_of(config, n)],
                    names)
        configured == DOMAIN config.check_weights
        total_weight == SumOver([n \in configured |-> weight_of(config, n)], configured)
    IN  IF names = {} \/ total_weight <= 0 THEN [num |-> 0, den |-> 1]
        ELSE [num |-> total_score, den |-> total_weight]

\* _calculate_overall_score as the fraction num / den: num sums score * weight
\* (in 1/10000), den sums weight (in 1/100); no results or no weight give 0
calculate_overall_score(config, checks_results) ==
    LET names == DOMAIN checks_results
        total_score ==
            SumOver([n \in names |-> checks_results[n].score * weight_of(config, n)],
                    names)
        total_weight == SumOver([n \in names |-> weight_of(config, n)], names)
    IN  IF names = {} \/ total_weight <= 0 THEN [num |-> 0, den |-> 1]
        ELSE [num |-> total_score, den |-> total_weight]

\* a threshold test that a score equal to the threshold does not pass
score_passes_strictly(config, score) == score.num > config.quality_threshold * score.den

\* verify_ticket_evidence: overall_score >= quality_threshold
score_passes(config, score) == score.num >= config.quality_threshold * score.den

\* verify_ticket_evidence: the VerificationResult of a run that did not raise
VerificationResult(config, ticket_id, evidence_cid, checks_results, time) ==
    LET overall_score == calculate_overall_score(config, checks_results)
    IN  [ticket_id |-> ticket_id, evidence_cid |-> evidence_cid,
         passed |-> score_passes(config, overall_score), score |-> overall_score,
         checks_performed |-> DOMAIN checks_results,
         verification_timestamp |-> time]

\* the VerificationResult of a run that raised, were it marked as passed
ErrorResultPassed(ticket_id, evidence_cid, time) ==
    [ticket_id |-> ticket_id, evidence_cid |-> evidence_cid,
     passed |-> TRUE, score |-> [num |-> 0, den |-> 1],
     checks_performed |-> {"error_handling"},
     verification_timestamp |-> time]

\* verify_ticket_evidence: the VerificationResult of a run that raised
ErrorResult(ticket_id, evidence_cid, time) ==
    [ticket_id |-> ticket_id, evidence_cid |-> evidence_cid,
     passed |-> FALSE, score |-> [num |-> 0, den |-> 1],
     checks_performed |-> {"error_handling"},
     verification_timestamp |-> time]

\* no VerificationResult yet
NoResult == [ticket_id |-> "", evidence_cid |-> "", passed |-> FALSE,
             score |-> [num |-> 0, den |-> 1], checks_performed |-> {},
             verification_timestamp |-> 0]

\* VerificationResult.to_dict: asdict of the dataclass, a dict as the
\* sequence of its items in the order of the fields
to_dict(result) ==
    <<<<"ticket_id", result.ticket_id>>,
      <<"evidence_cid", result.evidence_cid>>,
      <<"passed", result.passed>>,
      <<"score", result.score>>,
      <<"checks_performed", result.checks_performed>>,
      <<"verification_timestamp", result.verification_timestamp>>>>

\* the keys of the documents of the mock store in ascending order
StoredKeys == <<"checks_performed", "evidence_cid", "github_pr", "passed",
                "score", "tests_passing", "ticket_id",
                "verification_timestamp">>

\* json.dumps(data) that leaves the items in the order of insertion
json_dumps_unsorted(data) == data

\* json.dumps(data, sort_keys=True): the items in the order of their keys
json_dumps_sort_keys(data) ==
    LET present == SelectSeq(StoredKeys,
                             LAMBDA k : \E i \in DOMAIN data : data[i][1] = k)
    IN  [n \in DOMAIN present |->
            data[CHOOSE i \in DOMAIN data : data[i][1] = present[n]]]

\* hashlib.sha256(content.encode()).hexdigest()[:46]: the 46 leading hex
\* digits of the digest, which differ whenever the contents differ
sha256_hexdigest_46(content) == [sha256 |-> content]

\* json.dump(data, f, indent=2): the text of the file, the items in the
\* order of insertion
json_dump(data) == data

\* json.load(f): the dict of the text
json_load(text) == text

\* key in data
dict_has(data, key) == \E i \in DOMAIN data : data[i][1] = key

\* data[key]
dict_at(data, key) == data[CHOOSE i \in DOMAIN data : data[i][1] = key][2]

\* dict == dict in Python: the same items, in whatever order
dict_eq(a, b) ==
    {a[i] : i \in DOMAIN a} = {b[i] : i \in DOMAIN b}

\* open(file_path, 'w') and the write: the directory with the file replaced
write_file(storage, file_path, text) ==
    [f \in DOMAIN storage \cup {file_path} |->
        IF f = file_path THEN text ELSE storage[f]]

\* MockIPFSClient.add_json(data): the CID returned, the digest of the sorted
\* content after "Qm", and the directory with the file named by the digest
add_json(storage, data) ==
    LET content == json_dumps_sort_keys(data)
        cid == sha256_hexdigest_46(content)
    IN  [cid |-> [Qm |-> cid],
         storage |-> write_file(storage, cid, json_dump(data))]

\* MockIPFSClient.get_json(cid): "Qm" is taken out of the CID, which leaves
\* the hex digits, the file of that name is loaded, and FileNotFoundError is
\* raised without it
get_json(storage, cid) ==
    LET clean_cid == cid.Qm
    IN  IF clean_cid \in DOMAIN storage
        THEN [found |-> TRUE, data |-> json_load(storage[clean_cid])]
        ELSE [found |-> FALSE, data |-> <<>>]

\* _upload_verification_report(result): add_json of result.to_dict()
upload_verification_report(storage, result) == add_json(storage, to_dict(result))

\* approve_ticket_on_chain without the test of the result
approval_allowed_always(verification_result) == TRUE

\* approve_ticket_on_chain: "if not verification_result.passed: return None"
approval_allowed(verification_result) == verification_result.passed

\* a mock client whose recorded call is a payout
call_payout(contract_calls, ticket_id, verifier_report_cid, time) ==
    Append(contract_calls,
           [function |-> "payout", ticket_id |-> ticket_id,
            verifier_report_cid |-> verifier_report_cid,
            tx_hash |-> <<ticket_id, verifier_report_cid, time>>])

\* MockWeb3Client.call_approve_ticket: contract_calls after the call
call_approve_ticket(contract_calls, ticket_id, verifier_report_cid, time) ==
    Append(contract_calls,
           [function |-> "approveTicket", ticket_id |-> ticket_id,
            verifier_report_cid |-> verifier_report_cid,
            tx_hash |-> <<ticket_id, verifier_report_cid, time>>])

\* the verification engine outside a run: its config, and the ticket spec,
\* evidence and check results a run works on
EngineIdle == [step |-> "none", config |-> default_config, spec |-> fallback_spec,
               evidence |-> fallback_evidence, checks_results |-> <<>>]

\* no file in the mock ipfs directory
EmptyDir == [f \in {} |-> <<>>]

\* TicketVerifier.__init__ and VerifierDaemon.__init__; storage is the mock
\* ipfs directory, the text of each file under its name, puts the calls of
\* add_json so far with the CID each returned, got the last return of
\* get_json, result the last VerificationResult returned, i the daemon's
\* position in simulated_submissions (0: not in a cycle)
OrynInit == [contract_calls |-> <<>>, storage |-> EmptyDir, puts |-> <<>>,
             got |-> [found |-> FALSE, data |-> <<>>], result |-> NoResult,
             returned |-> "none", running |-> FALSE, processed_tickets |-> {},
             i |-> 0, stage |-> "verify", failed |-> FALSE, ended |-> "",
             fetched |-> "none", engine |-> EngineIdle]

\* verify_ticket_evidence from the checks on: the result of the checks on
\* evidence e for ticket spec, or the error result when a check raises
verify_evidence(config, spec, ticket_id, evidence_cid, e, time) ==
    IF \E n \in checks_performed(spec) : check_raises(n, e)
    THEN ErrorResult(ticket_id, evidence_cid, time)
    ELSE VerificationResult(config, ticket_id, evidence_cid,
                            perform_verification_checks(e, spec), time)

\* verify_ticket_evidence(ticket_id, evidence_cid): the results it can
\* return, each with what _fetch_evidence found
verify(ticket_id, evidence_cid, time) ==
    {[fetched |-> f.fetched,
      result |-> verify_evidence(default_config, fallback_spec, ticket_id,
                                 evidence_cid, f.evidence, time)] :
        f \in fetch_evidence}

\* verify_ticket_evidence is called outside the daemon
verify_ticket_evidence ==
    /\ oryn.i = 0
    /\ \E k \in 1..Len(simulated_submissions) :
       \E r \in verify(simulated_submissions[k].ticket_id,
                       simulated_submissions[k].evidence_cid, now) :
          oryn' = [oryn EXCEPT !.result = r.result, !.fetched = r.fetched]
    /\ UNCHANGED <<task, now, submitWindow, call, approval, svc, packager>>

\* approve_ticket_on_chain that calls the contract without the upload
approve_ticket_unpublished(o, verification_result, time, raised) ==
    IF ~approval_allowed(verification_result) \/ raised
    THEN [o EXCEPT !.returned = "None"]
    ELSE [o EXCEPT !.contract_calls =
                       call_approve_ticket(@, verification_result.ticket_id,
                                           upload_verification_report(
                                               o.storage, verification_result).cid,
                                           time),
                   !.returned = "tx_hash"]

\* approve_ticket_on_chain(verification_result): oryn after the call; the
\* upload or the contract call may raise, and then nothing is recorded
approve_ticket(o, verification_result, time, raised) ==
    IF ~approval_allowed(verification_result) \/ raised
    THEN [o EXCEPT !.returned = "None"]
    ELSE LET uploaded == upload_verification_report(o.storage,
                                                    verification_result)
         IN  [o EXCEPT !.storage = uploaded.storage,
                       !.puts = Append(@, [data |-> to_dict(verification_result),
                                           cid |-> uploaded.cid]),
                       !.contract_calls =
                           call_approve_ticket(@, verification_result.ticket_id,
                                               uploaded.cid, time),
                       !.returned = "tx_hash"]

\* approve_ticket_on_chain is called outside the daemon with the last result
approve_ticket_on_chain ==
    /\ oryn.i = 0
    /\ oryn.result # NoResult
    /\ Len(oryn.contract_calls) < MaxCalls
    /\ \E raised \in BOOLEAN : oryn' = approve_ticket(oryn, oryn.result, now, raised)
    /\ UNCHANGED <<task, now, submitWindow, call, approval, svc, packager>>

\* VerifierDaemon.start
daemon_start ==
    /\ ~oryn.running
    /\ oryn' = [oryn EXCEPT !.running = TRUE, !.ended = ""]
    /\ UNCHANGED <<task, now, submitWindow, call, approval, svc, packager>>

\* VerifierDaemon.stop
daemon_stop ==
    /\ oryn.running
    /\ oryn' = [oryn EXCEPT !.running = FALSE, !.ended = "stop"]
    /\ UNCHANGED <<task, now, submitWindow, call, approval, svc, packager>>

\* VerifierDaemon.start: the loop body begins _check_for_new_submissions
check_for_new_submissions ==
    /\ oryn.running
    /\ oryn.i = 0
    /\ oryn' = [oryn EXCEPT !.i = 1, !.stage = "verify"]
    /\ UNCHANGED <<task, now, submitWindow, call, approval, svc, packager>>

\* _check_for_new_submissions verifying every submission, processed or not
daemon_verify_every_cycle ==
    /\ oryn.i \in 1..Len(simulated_submissions)
    /\ oryn.stage = "verify"
    /\ LET submission == simulated_submissions[oryn.i]
       IN  \E r \in verify(submission.ticket_id, submission.evidence_cid, now) :
              oryn' = [oryn EXCEPT !.result = r.result, !.fetched = r.fetched,
                                   !.stage = "approve"]
    /\ UNCHANGED <<task, now, submitWindow, call, approval, svc, packager>>

\* _check_for_new_submissions: one submission is skipped or verified
daemon_verify ==
    /\ oryn.i \in 1..Len(simulated_submissions)
    /\ oryn.stage = "verify"
    /\ LET submission == simulated_submissions[oryn.i]
       IN  IF submission.ticket_id \in oryn.processed_tickets
           THEN oryn' = [oryn EXCEPT !.i = @ + 1]
           ELSE \E r \in verify(submission.ticket_id, submission.evidence_cid, now) :
                   oryn' = [oryn EXCEPT !.result = r.result, !.fetched = r.fetched,
                                        !.stage = "approve"]
    /\ UNCHANGED <<task, now, submitWindow, call, approval, svc, packager>>

\* _check_for_new_submissions: approve_ticket_on_chain(result), then the
\* ticket is recorded as processed
daemon_approve ==
    /\ oryn.i \in 1..Len(simulated_submissions)
    /\ oryn.stage = "approve"
    /\ Len(oryn.contract_calls) < MaxCalls
    /\ \E raised \in BOOLEAN :
          oryn' = [approve_ticket(oryn, oryn.result, now, raised)
                      EXCEPT !.processed_tickets =
                                 @ \cup {simulated_submissions[oryn.i].ticket_id},
                             !.i = @ + 1, !.stage = "verify"]
    /\ UNCHANGED <<task, now, submitWindow, call, approval, svc, packager>>

\* _check_for_new_submissions returns; the loop sleeps.  failed says that
\* the last cycle that ended was left by an Exception
daemon_sleep ==
    /\ oryn.i = Len(simulated_submissions) + 1
    /\ oryn' = [oryn EXCEPT !.i = 0, !.failed = FALSE]
    /\ UNCHANGED <<task, now, submitWindow, call, approval, svc, packager>>

\* VerifierDaemon.start with an error that ends the loop
daemon_error_ends_loop ==
    /\ oryn.i \in 1..Len(simulated_submissions)
    /\ oryn' = [oryn EXCEPT !.i = 0, !.stage = "verify", !.failed = TRUE,
                            !.running = FALSE]
    /\ UNCHANGED <<task, now, submitWindow, call, approval, svc, packager>>

\* VerifierDaemon.start: _check_for_new_submissions raises an unexpected
\* Exception between two calls; the loop logs it and sleeps
daemon_error ==
    /\ oryn.i \in 1..Len(simulated_submissions)
    /\ oryn' = [oryn EXCEPT !.i = 0, !.stage = "verify", !.failed = TRUE]
    /\ UNCHANGED <<task, now, submitWindow, call, approval, svc, packager>>

\* VerifierDaemon.start: KeyboardInterrupt in the loop body
daemon_interrupt ==
    /\ oryn.running
    /\ oryn' = [oryn EXCEPT !.running = FALSE, !.ended = "interrupt",
                            !.i = 0, !.stage = "verify"]
    /\ UNCHANGED <<task, now, submitWindow, call, approval, svc, packager>>

\* TaskVerifierService.run_continuous is called
run_continuous ==
    /\ svc.loop = "none"
    /\ svc' = [svc EXCEPT !.loop = "poll"]
    /\ UNCHANGED <<task, now, submitWindow, call, approval, oryn, packager>>

\* run_continuous: a poll logs and sleeps, or raises an Exception
run_continuous_poll ==
    /\ svc.loop = "poll"
    /\ \E raised \in BOOLEAN :
          svc' = [svc EXCEPT !.loop = IF raised THEN "error" ELSE "poll"]
    /\ UNCHANGED <<task, now, submitWindow, call, approval, oryn, packager>>

\* run_continuous: the Exception is logged and the loop sleeps
run_continuous_error ==
    /\ svc.loop = "error"
    /\ svc' = [svc EXCEPT !.loop = "poll"]
    /\ UNCHANGED <<task, now, submitWindow, call, approval, oryn, packager>>

\* run_continuous: KeyboardInterrupt, in the loop body (break) or in the
\* sleep of the error handler (propagates)
run_continuous_interrupt ==
    /\ svc.loop \in {"poll", "error"}
    /\ svc' = [svc EXCEPT !.loop = "interrupted"]
    /\ UNCHANGED <<task, now, submitWindow, call, approval, oryn, packager>>

(***************************************************************************)
(* Initial states                                                          *)
(***************************************************************************)

(***************************************************************************)
(* EvidencePackager (task-system/submit_evidence.py)                       *)
(***************************************************************************)
\* the deliverables of one task sheet
MaxDeliverables == 2

\* str.lower() of one character
lower_char(c) ==
    CASE c = "G" -> "g" [] c = "H" -> "h" [] c = "P" -> "p" [] c = "R" -> "r"
      [] c = "D" -> "d" [] c = "U" -> "u" [] c = "L" -> "l" [] c = "E" -> "e"
      [] c = "A" -> "a" [] c = "M" -> "m" [] c = "T" -> "t" [] c = "X" -> "x"
      [] OTHER -> c

\* str.lower(): a string is the sequence of its characters
lower(str) == [i \in DOMAIN str |-> lower_char(str[i])]

\* "word in str": word is a substring of str
contains(str, word) ==
    \E i \in 1..(Len(str) - Len(word) + 1) :
        SubSeq(str, i, i + Len(word) - 1) = word

\* str.endswith(suffixes)
endswith(str, suffixes) ==
    \E suffix \in suffixes :
        /\ Len(suffix) <= Len(str)
        /\ SubSeq(str, Len(str) - Len(suffix) + 1, Len(str)) = suffix

\* the keywords of the branches of _check_deliverables, in the order of the
\* branches
github_words == {<<"g", "i", "t", "h", "u", "b">>, <<"p", "r">>, <<"p", "u", "l", "l", " ", "r", "e", "q", "u", "e", "s", "t">>}
demo_words == {<<"d", "e", "m", "o">>, <<"u", "r", "l">>}
documentation_words == {<<"d", "o", "c", "u", "m", "e", "n", "t", "a", "t", "i", "o", "n">>, <<"r", "e", "a", "d", "m", "e">>, <<"d", "o", "c", "s">>}
code_words == {<<"c", "o", "d", "e">>, <<"i", "m", "p", "l", "e", "m", "e", "n", "t", "a", "t", "i", "o", "n">>, <<"s", "c", "r", "i", "p", "t">>}

\* the suffixes of documentation files and of code files
doc_suffixes == {<<".", "m", "d">>, <<".", "r", "s", "t">>, <<".", "t", "x", "t">>}
code_suffixes == {<<".", "p", "y">>, <<".", "j", "s">>, <<".", "s", "o", "l">>, <<".", "g", "o">>, <<".", "r", "s">>, <<".", "j", "a", "v", "a">>, <<".", "c", "p", "p">>}

\* "f for f in files if ...": the documentation files and the code files
doc_files(files) ==
    SelectSeq(files, LAMBDA f : \/ endswith(lower(f.path), doc_suffixes)
                                \/ contains(lower(f.path), <<"d", "o", "c">>))
code_files(files) ==
    SelectSeq(files, LAMBDA f : endswith(lower(f.path), code_suffixes))

\* evidence["evidence"].get(key): the value of the key is there and truthy;
\* a description is a string, the other values are dicts with keys
dict_get_truthy(evidence, key) ==
    /\ key \in DOMAIN evidence
    /\ key = "description" => evidence[key] # <<>>

\* evidence["evidence"].get("files", {}).get("files", [])
packaged_files(evidence) ==
    IF "files" \in DOMAIN evidence THEN evidence["files"].files ELSE <<>>

\* any(evidence["evidence"].values())
any_values(evidence) == \E key \in DOMAIN evidence : dict_get_truthy(evidence, key)

\* _check_deliverables where a later branch that matches overrides an
\* earlier one
branch_of_last_match(deliverable) ==
    LET deliverable_lower == lower(deliverable)
    IN  IF \E w \in code_words : contains(deliverable_lower, w) THEN "code"
        ELSE IF \E w \in documentation_words : contains(deliverable_lower, w)
             THEN "documentation"
        ELSE IF \E w \in demo_words : contains(deliverable_lower, w) THEN "demo"
        ELSE IF \E w \in github_words : contains(deliverable_lower, w) THEN "github_pr"
        ELSE "generic"

\* the branch of _check_deliverables taken for a deliverable
branch_of(deliverable) ==
    LET deliverable_lower == lower(deliverable)
    IN  IF \E w \in github_words : contains(deliverable_lower, w) THEN "github_pr"
        ELSE IF \E w \in demo_words : contains(deliverable_lower, w) THEN "demo"
        ELSE IF \E w \in documentation_words : contains(deliverable_lower, w)
             THEN "documentation"
        ELSE IF \E w \in code_words : contains(deliverable_lower, w) THEN "code"
        ELSE "generic"

\* _check_deliverables whose generic branch leaves the status as it was
\* initialised
deliverable_check_generic_unknown(i, deliverable, evidence) ==
    LET branch == branch_of(deliverable)
        provided ==
            CASE branch = "github_pr" -> dict_get_truthy(evidence, "github_pr")
              [] branch = "demo" -> dict_get_truthy(evidence, "demo")
              [] branch = "documentation" ->
                     Len(doc_files(packaged_files(evidence))) > 0
              [] branch = "code" -> Len(code_files(packaged_files(evidence))) > 0
              [] OTHER -> FALSE
    IN  [index |-> i - 1,
         description |-> deliverable,
         status |-> IF branch = "generic" THEN "unknown"
                    ELSE IF provided THEN "provided" ELSE "missing",
         evidence_reference |->
             IF ~provided \/ branch = "generic" THEN "None"
             ELSE IF branch \in {"documentation", "code"} THEN "files"
             ELSE branch]

\* one deliverable_check of _check_deliverables: the branch for the
\* deliverable, and in it the test of the evidence
deliverable_check(i, deliverable, evidence) ==
    LET branch == branch_of(deliverable)
        provided ==
            CASE branch = "github_pr" -> dict_get_truthy(evidence, "github_pr")
              [] branch = "demo" -> dict_get_truthy(evidence, "demo")
              [] branch = "documentation" ->
                     Len(doc_files(packaged_files(evidence))) > 0
              [] branch = "code" -> Len(code_files(packaged_files(evidence))) > 0
              [] OTHER -> any_values(evidence)
    IN  [index |-> i - 1,
         description |-> deliverable,
         status |-> IF provided THEN "provided" ELSE "missing",
         evidence_reference |->
             IF ~provided \/ branch = "generic" THEN "None"
             ELSE IF branch \in {"documentation", "code"} THEN "files"
             ELSE branch]

\* _check_deliverables(task_sheet, evidence): one check per deliverable of
\* the task sheet, in their order
check_deliverables(task_sheet, evidence) ==
    [i \in DOMAIN task_sheet.deliverables |->
        deliverable_check(i, task_sheet.deliverables[i], evidence)]

\* the files of the project directory
ProjectFiles == {<<"m", "a", "i", "n", ".", "p", "y">>, <<"R", "E", "A", "D", "M", "E", ".", "m", "d">>, <<"d", "o", "c", "s", "/", "a", "p", "i", ".", "h", "t", "m", "l">>}

\* _package_files(files): the files that exist, in the order given
package_files(files) ==
    LET existing == SelectSeq(files, LAMBDA file_path : file_path \in ProjectFiles)
    IN  [count |-> Len(existing),
         files |-> [i \in DOMAIN existing |-> [path |-> existing[i]]]]

\* create_evidence_package up to the deliverable checks: the evidence map
\* with a key for each argument that is truthy
evidence_map(files, github_pr, demo_url, description) ==
    LET keys == {k \in {"github_pr", "demo", "description", "files"} :
                    \/ k = "github_pr" /\ github_pr # 0
                    \/ k = "demo" /\ demo_url # <<>>
                    \/ k = "description" /\ description # <<>>
                    \/ k = "files" /\ files # <<>>}
    IN  [k \in keys |->
            CASE k = "github_pr" -> [number |-> github_pr]
              [] k = "demo" -> [url |-> demo_url]
              [] k = "description" -> description
              [] OTHER -> package_files(files)]

\* no task sheet found by _load_task_sheet
NoTaskSheet == [found |-> FALSE, deliverables |-> <<>>]

\* create_evidence_package(files, github_pr, demo_url, description): the
\* package, with the deliverable checks when the task sheet is found
create_evidence_package(task_sheet, files, github_pr, demo_url, description) ==
    LET evidence == evidence_map(files, github_pr, demo_url, description)
    IN  [evidence |-> evidence,
         deliverables |-> IF task_sheet.found
                          THEN check_deliverables(task_sheet, evidence)
                          ELSE <<>>]

\* EvidencePackager.__init__: nothing packaged yet
PackagerIdle == [task_sheet |-> NoTaskSheet, packaged |-> FALSE,
                 package |-> [evidence |-> <<>>, deliverables |-> <<>>]]

\* the deliverables of the task sheets
Deliverables == {<<"G", "i", "t", "H", "u", "b", " ", "P", "R">>, <<"D", "e", "m", "o", " ", "U", "R", "L">>, <<"R", "E", "A", "D", "M", "E", " ", "d", "o", "c", "s">>, <<"s", "c", "r", "i", "p", "t">>,
                 <<"i", "m", "p", "r", "o", "v", "e", " ", "d", "o", "c", "u", "m", "e", "n", "t", "a", "t", "i", "o", "n">>, <<"d", "e", "m", "o", " ", "o", "f", " ", "c", "o", "d", "e">>, <<"r", "e", "p", "o", "r", "t">>,
                 <<"d", "o", "c", "s", " ", "a", "n", "d", " ", "c", "o", "d", "e">>}

\* the task sheets: none, or one with up to MaxDeliverables deliverables
TaskSheets ==
    {NoTaskSheet}
    \cup {[found |-> TRUE, deliverables |-> d] :
             d \in UNION {[1..n -> Deliverables] : n \in 0..MaxDeliverables}}

\* the arguments of create_evidence_package
FileLists == {<<>>, <<<<"m", "i", "s", "s", "i", "n", "g", ".", "p", "y">>>>, <<<<"m", "a", "i", "n", ".", "p", "y">>>>, <<<<"R", "E", "A", "D", "M", "E", ".", "m", "d">>>>,
              <<<<"d", "o", "c", "s", "/", "a", "p", "i", ".", "h", "t", "m", "l">>>>, <<<<"m", "a", "i", "n", ".", "p", "y">>, <<"R", "E", "A", "D", "M", "E", ".", "m", "d">>>>}
PullRequests == {0, 7}
DemoUrls == {<<>>, <<"h", "t", "t", "p", "s", ":", "/", "/", "d", "e", "m", "o">>}
DescriptionTexts == {<<>>, <<"d", "o", "n", "e">>}

PackagerInit ==
    /\ now = 0
    /\ submitWindow = 0
    /\ task = NewTask
    /\ call = [a \in Accounts |-> Idle]
    /\ approval = NoReceipt
    /\ svc = SvcIdle
    /\ oryn = OrynInit
    /\ \E task_sheet \in TaskSheets :
          packager = [PackagerIdle EXCEPT !.task_sheet = task_sheet]

\* EvidencePackager.create_evidence_package is called
packager_create_evidence_package ==
    /\ \E files \in FileLists, github_pr \in PullRequests, demo_url \in DemoUrls,
          description \in DescriptionTexts :
          packager' = [packager EXCEPT
                          !.packaged = TRUE,
                          !.package = create_evidence_package(
                                          packager.task_sheet, files, github_pr,
                                          demo_url, description)]
    /\ UNCHANGED <<task, now, submitWindow, call, approval, svc, oryn>>

PackagerNext == packager_create_evidence_package

PackagerSpec == PackagerInit /\ [][PackagerNext]_vars

\* the registry holds one task, created Open and unclaimed
LedgerInit ==
    /\ task = NewTask
    /\ now = 0
    /\ submitWindow \in SubmitWindows

(***************************************************************************)
(* The contributors' clients against the registry                          *)
(***************************************************************************)
Init ==
    /\ packager = PackagerIdle
    /\ LedgerInit
    /\ call = [a \in Accounts |-> Idle]
    /\ approval = NoReceipt
    /\ svc = SvcIdle
    /\ oryn = OrynInit

ClientStep(a) ==
    \/ claim_task(a)
    \/ claim_task_check(a)
    \/ claim_task_send(a)
    \/ submit_evidence(a)
    \/ submit_evidence_send(a)
    \/ claim_payout(a)
    \/ claim_payout_check(a)
    \/ claim_payout_send(a)
    \/ workflow_start(a)
    \/ contributor_workflow(a)
    \/ submit_workflow(a)
    \/ submit_workflow_pin(a)
    \/ payout_workflow(a)
    \/ registry_submit_evidence(a)
    \/ registry_submit_evidence_check(a)
    \/ registry_submit_evidence_send(a)

Next ==
    \/ \E a \in Accounts : ClientStep(a)
    \/ Tick
    \/ ExpireClaim
    \/ Relist
    \/ VerifierSends
    \/ VerifierApproves

Spec == Init /\ [][Next]_vars

\* the contributors' clients with the submission tool of task-system
SubmitNext ==
    \/ Next
    \/ \E a \in Accounts : tool_submit_evidence(a)
    \/ \E a \in Accounts : tool_submit_evidence_pin(a)

SubmitSpec == Init /\ [][SubmitNext]_vars

(***************************************************************************)
(* The verifier service against the registry                               *)
(***************************************************************************)
ServiceNext ==
    \/ process_task_submission
    \/ load_task_sheet
    \/ validate_task
    \/ pin_json
    \/ approve_task
    \/ approve_task_timeout
    \/ approve_mined
    \/ ContributorTx
    \/ Tick
    \/ ExpireClaim
    \/ Relist

ServiceSpec == Init /\ [][ServiceNext]_vars

(***************************************************************************)
(* The ticket verifier and its daemon against the mock clients             *)
(***************************************************************************)
OrynNext ==
    \/ verify_ticket_evidence
    \/ approve_ticket_on_chain
    \/ daemon_start
    \/ daemon_stop
    \/ check_for_new_submissions
    \/ daemon_verify
    \/ daemon_approve
    \/ daemon_sleep

OrynSpec == Init /\ [][OrynNext]_vars

(***************************************************************************)
(* Two contributors racing to claim the Open task                          *)
(***************************************************************************)
\* both accounts have called claim_task or contributor_workflow on the Open
\* task and neither has read the status yet
RaceInit ==
    /\ packager = PackagerIdle
    /\ LedgerInit
    /\ call \in [Accounts -> {Begin("claim_task", "check", "", FALSE),
                              Begin("contributor_workflow", "status", "", FALSE)}]
    /\ approval = NoReceipt
    /\ svc = SvcIdle
    /\ oryn = OrynInit

RaceNext ==
    \/ \E a \in Accounts : \/ contributor_workflow(a)
                           \/ claim_task_check(a)
                           \/ claim_task_send(a)
    \/ Tick

RaceSpec == RaceInit /\ [][RaceNext]_vars

(***************************************************************************)
(* The two verifiers settling a Submitted task                             *)
(***************************************************************************)
\* alice has claimed the task and submitted her evidence (Scenarios C, D)
BridgeInit ==
    /\ packager = PackagerIdle
    /\ now = 0
    /\ submitWindow = 0
    /\ task = submitEvidence(claimTask(NewTask, "alice", now, submitWindow).task,
                             "alice", keccak("cid1"), now).task
    /\ call = [a \in Accounts |-> Idle]
    /\ approval = NoReceipt
    /\ svc = SvcIdle
    /\ oryn = OrynInit

BridgeNext ==
    \/ process_task_submission
    \/ load_task_sheet
    \/ validate_task
    \/ pin_json
    \/ approve_task
    \/ approve_task_timeout
    \/ approve_mined
    \/ daemon_start
    \/ daemon_stop
    \/ check_for_new_submissions
    \/ daemon_verify
    \/ daemon_approve
    \/ daemon_sleep

BridgeSpec == BridgeInit /\ [][BridgeNext]_vars


(***************************************************************************)
(* The signer on its own: any report, signed or not, handed to sign_report *)
(***************************************************************************)
\* the signatures a report can arrive with: none, one made over its content
\* by either key, or one made over nothing
SignaturesOf(report) ==
    {NoSignature, sign("k1", <<>>)}
       \cup {sign(k, canonical_json(report)) : k \in SignerKeys}

\* the reports sign_report can be handed
Reports ==
    LET unsigned ==
            [task_id : {"M1-T001", "M1-T002"},
             verifier_pubkey : {""} \cup {get_public_key_hex(k) : k \in SignerKeys},
             verified_at : 0..MaxTime,
             overall_status : {"pass", "fail", "partial"},
             notes : {"", "Validation error"},
             signature : {NoSignature}]
    IN  UNION {{[r EXCEPT !.signature = s] : s \in SignaturesOf(r)} : r \in unsigned}

\* a service whose signer holds either key, before a report is signed
SignInit ==
    /\ packager = PackagerIdle
    /\ LedgerInit
    /\ call = [a \in Accounts |-> Idle]
    /\ approval = NoReceipt
    /\ oryn = OrynInit
    /\ \E k \in SignerKeys, r \in Reports :
          svc = [SvcIdle EXCEPT !.key = k, !.report = r]

\* ReportSigner.sign_report on the report at hand
signer_sign_report ==
    /\ svc' = [svc EXCEPT !.report = sign_report(svc.key, svc.report),
                          !.signed = TRUE]
    /\ UNCHANGED <<task, now, submitWindow, call, approval, oryn, packager>>

SignNext == signer_sign_report

SignSpec == SignInit /\ [][SignNext]_vars

(***************************************************************************)
(* The two polling loops on their own, with cycles that raise              *)
(***************************************************************************)
DaemonNext ==
    \/ daemon_start
    \/ daemon_stop
    \/ check_for_new_submissions
    \/ daemon_verify
    \/ daemon_approve
    \/ daemon_sleep
    \/ daemon_error
    \/ daemon_interrupt
    \/ run_continuous
    \/ run_continuous_poll
    \/ run_continuous_error
    \/ run_continuous_interrupt

DaemonSpec == BridgeInit /\ [][DaemonNext]_vars

(***************************************************************************)
(* The validator of the service on given checks, up to the approval        *)
(***************************************************************************)
\* what validate_task can record: up to MaxChecks GitHub checks and content
\* checks with some of them passed, or an exception on the way
RecordedChecks ==
    {c \in [github_passed : 0..MaxChecks, github_total : 0..MaxChecks,
            content_passed : 0..MaxChecks, content_total : 0..MaxChecks,
            raised : BOOLEAN] :
        c.github_passed <= c.github_total /\ c.content_passed <= c.content_total}

\* process_task_submission has loaded the task sheet of a submission whose
\* validation will record the checks drawn
ValidatorInit ==
    /\ packager = PackagerIdle
    /\ now = 0
    /\ submitWindow = 0
    /\ task = submitEvidence(claimTask(NewTask, "alice", now, submitWindow).task,
                             "alice", keccak("cid1"), now).task
    /\ call = [a \in Accounts |-> Idle]
    /\ approval = NoReceipt
    /\ oryn = OrynInit
    /\ \E b \in BOOLEAN, checks \in RecordedChecks :
          svc = [SvcIdle EXCEPT !.pc = "validate", !.blockchain = b,
                                !.checks = checks]

\* process_task_submission: validate_task on the checks of the submission,
\* then sign_report
validator_validate_task ==
    /\ svc.pc = "validate"
    /\ LET overall_status ==
               IF svc.checks.raised THEN "fail"
               ELSE calculate_overall_status(svc.checks.github_passed,
                                             svc.checks.github_total,
                                             svc.checks.content_passed,
                                             svc.checks.content_total)
           report == [NewReport("M1-T001", now) EXCEPT
                         !.overall_status = overall_status,
                         !.notes = IF svc.checks.raised THEN "Validation error"
                                   ELSE ""]
       IN  svc' = [svc EXCEPT !.pc = "pin",
                              !.overall_status = overall_status,
                              !.report = sign_report(svc.key, report),
                              !.signed = TRUE]
    /\ UNCHANGED <<task, now, submitWindow, call, approval, oryn, packager>>

ValidatorNext ==
    \/ validator_validate_task
    \/ pin_json
    \/ approve_task
    \/ approve_task_timeout
    \/ approve_mined

ValidatorSpec == ValidatorInit /\ [][ValidatorNext]_vars

\* the pipeline of the service and the cycle of the daemon, each cancelled
\* or interrupted at any of its steps
CancelNext ==
    \/ process_task_submission
    \/ load_task_sheet
    \/ validate_task
    \/ pin_json
    \/ approve_task
    \/ approve_task_timeout
    \/ process_cancelled
    \/ daemon_start
    \/ check_for_new_submissions
    \/ daemon_verify
    \/ daemon_approve
    \/ daemon_sleep
    \/ daemon_interrupt

CancelSpec == BridgeInit /\ [][CancelNext]_vars

\* a loop that is not stopped or interrupted goes on: asyncio.sleep returns
\* and the next iteration begins
DaemonLive ==
    /\ DaemonSpec
    /\ WF_vars(check_for_new_submissions)
    /\ WF_vars(run_continuous_error)

(***************************************************************************)
(* The verification engine on its own: any config, ticket spec, evidence   *)
(* and check results                                                       *)
(***************************************************************************)
\* the names an evidence_requirements entry can have
RequirementNames == {"code_review", "tests_passing", "documentation",
                     "security_audit", "accessibility"}

\* the ticket specs a run can be given
TicketSpecs ==
    [category : {"security", "ui", "docs"},
     evidence_requirements : SUBSET RequirementNames]

\* the names in a dict of check results; custom_check has no default weight
ResultNames == {"code_review", "tests_passing", "custom_check"}

\* the scores of a check result, in hundredths
Scores == {0, 70, 100}

\* the dicts of check results _calculate_overall_score can be given
ChecksResults ==
    UNION {[names -> [passed : BOOLEAN, score : Scores]] : names \in SUBSET ResultNames}

\* the weights a config file can give, in hundredths; nothing checks their
\* sign
Weights == {-10, 0, 30}

\* the configs a config file can give: weights for some names and a
\* threshold
Configs ==
    [check_weights : UNION {[names -> Weights] : names \in SUBSET ResultNames},
     quality_threshold : {0, 70, 100}]

\* a run that stands before its checks, or before the aggregation of given
\* check results
EngineInit ==
    /\ packager = PackagerIdle
    /\ now = 0
    /\ submitWindow = 0
    /\ task = NewTask
    /\ call = [a \in Accounts |-> Idle]
    /\ approval = NoReceipt
    /\ svc = SvcIdle
    /\ \E config \in Configs \cup {default_config} :
          \/ \E spec \in TicketSpecs, e \in Evidences :
                oryn = [OrynInit EXCEPT !.engine = [step |-> "checks", config |-> config,
                                                    spec |-> spec, evidence |-> e,
                                                    checks_results |-> <<>>]]
          \/ \E checks_results \in ChecksResults :
                oryn = [OrynInit EXCEPT !.engine = [EngineIdle EXCEPT
                                                       !.step = "score",
                                                       !.config = config,
                                                       !.checks_results = checks_results]]

\* verify_ticket_evidence: _perform_verification_checks; a check that raises
\* ends the run with the error result
engine_checks ==
    /\ oryn.engine.step = "checks"
    /\ LET engine == oryn.engine
       IN  IF \E n \in checks_performed(engine.spec) : check_raises(n, engine.evidence)
           THEN oryn' = [oryn EXCEPT !.engine.step = "done",
                                     !.result = ErrorResult("ticket_001", "QmExample123",
                                                            now)]
           ELSE oryn' = [oryn EXCEPT !.engine.step = "score",
                                     !.engine.checks_results =
                                         perform_verification_checks(engine.evidence,
                                                                      engine.spec)]
    /\ UNCHANGED <<task, now, submitWindow, call, approval, svc, packager>>

\* verify_ticket_evidence: _calculate_overall_score, the threshold test and
\* the result
engine_score ==
    /\ oryn.engine.step = "score"
    /\ oryn' = [oryn EXCEPT !.engine.step = "done",
                            !.result = VerificationResult(oryn.engine.config,
                                           "ticket_001", "QmExample123",
                                           oryn.engine.checks_results, now)]
    /\ UNCHANGED <<task, now, submitWindow, call, approval, svc, packager>>

\* approve_ticket_on_chain on the result of the finished run
engine_approve ==
    /\ oryn.engine.step = "done"
    /\ \E raised \in BOOLEAN : oryn' = [approve_ticket(oryn, oryn.result, now, raised)
                                           EXCEPT !.engine.step = "approved"]
    /\ UNCHANGED <<task, now, submitWindow, call, approval, svc, packager>>

EngineNext == engine_checks \/ engine_score \/ engine_approve

EngineSpec == EngineInit /\ [][EngineNext]_vars

(***************************************************************************)
(* The mock content store on its own: add_json and get_json in any order   *)
(***************************************************************************)
\* the calls of add_json in one run of the store
MaxPuts == 3

\* the values of a document's fields
FieldValues == [github_pr |-> {"", "pr/1"}, tests_passing |-> BOOLEAN]

\* the evidence documents put: dicts of some of the fields github_pr and
\* tests_passing, with the items in either order of insertion
Documents ==
    {<<>>}
    \cup {<<<<k, v>>>> : k \in {"github_pr"}, v \in FieldValues.github_pr}
    \cup {<<<<k, v>>>> : k \in {"tests_passing"}, v \in FieldValues.tests_passing}
    \cup {<<<<"github_pr", g>>, <<"tests_passing", t>>>> :
              g \in FieldValues.github_pr, t \in FieldValues.tests_passing}
    \cup {<<<<"tests_passing", t>>, <<"github_pr", g>>>> :
              g \in FieldValues.github_pr, t \in FieldValues.tests_passing}

\* the CIDs get_json is called with: those add_json can return, and one of
\* no document
Cids == {add_json(EmptyDir, d).cid : d \in Documents}
            \cup {[Qm |-> sha256_hexdigest_46(<<<<"ticket_id", "ticket_001">>>>)]}

\* data/mock_ipfs is empty at the start or holds a file of an earlier run
StoreInit ==
    /\ packager = PackagerIdle
    /\ now = 0
    /\ submitWindow = 0
    /\ task = NewTask
    /\ call = [a \in Accounts |-> Idle]
    /\ approval = NoReceipt
    /\ svc = SvcIdle
    /\ \E storage \in {EmptyDir,
                        add_json(EmptyDir, <<<<"tests_passing", TRUE>>>>).storage} :
          oryn = [OrynInit EXCEPT !.storage = storage]

\* MockIPFSClient.add_json(data) is called
store_add_json ==
    /\ Len(oryn.puts) < MaxPuts
    /\ \E data \in Documents :
          LET added == add_json(oryn.storage, data)
          IN  oryn' = [oryn EXCEPT !.storage = added.storage,
                                   !.puts = Append(@, [data |-> data,
                                                       cid |-> added.cid])]
    /\ UNCHANGED <<task, now, submitWindow, call, approval, svc, packager>>

\* MockIPFSClient.get_json(cid) is called
store_get_json ==
    /\ \E cid \in Cids : oryn' = [oryn EXCEPT !.got = get_json(oryn.storage, cid)]
    /\ UNCHANGED <<task, now, submitWindow, call, approval, svc, packager>>

StoreNext == store_add_json \/ store_get_json

StoreSpec == StoreInit /\ [][StoreNext]_vars
(***************************************************************************)
(* Steps of a client call                                                  *)
(***************************************************************************)
\* the transaction of a's call is mined in this step
Mined(a) == call[a].pc = "send" /\ call'[a].pc = "done" /\ call'[a].sent

\* a's call returns in this step
Returns(a) == call[a].pc \notin {"idle", "done"} /\ call'[a].pc = "done"

\* a's call returns in this step without a transaction sent
Refused(a) == Returns(a) /\ ~call'[a].sent

\* the verifier's approveTask transaction is mined in this step
ApproveMined == approval.state = "pending" /\ approval'.state = "mined"

(***************************************************************************)
(* C1                                                                      *)
(***************************************************************************)
\* the (from-state, guard) pairs as the property lists them
DocumentedPair(op, t, caller) ==
    CASE op = "claim" -> t.status = Open
      [] op = "submit" -> t.status = Claimed /\ t.claimer = caller
      [] op = "payout" -> t.status = Approved /\ t.claimer = caller

\* C1 as stated: an operation is accepted iff the task's state and the caller
\* match claim from Open, submit from Claimed by the claimer, approve from
\* Submitted, payout from Approved by the claimer; every other combination is
\* rejected with InvalidState and leaves the task unchanged.
C1_AsStated ==
    [][ /\ \A a \in Accounts :
              Mined(a) =>
                  IF DocumentedPair(OperationOf(call[a].fn), task, a)
                  THEN call'[a].err = "ok"
                  ELSE call'[a].err = "InvalidState" /\ task' = task
        /\ ApproveMined =>
              IF task.status = Submitted
              THEN approval'.err = "ok"
              ELSE approval'.err = "InvalidState" /\ task' = task ]_vars

\* the pairs with the guards of 4.1: a submit also needs the deadline not to
\* have passed
AcceptedPair(op, t, caller, time) ==
    CASE op = "claim" -> t.status = Open
      [] op = "submit" -> /\ t.status = Claimed
                          /\ t.claimer = caller
                          /\ ~(t.submitDeadline > 0 /\ time > t.submitDeadline)
      [] op = "payout" -> t.status = Approved /\ t.claimer = caller

\* the status an accepted operation leaves
StatusAfter(op) ==
    CASE op = "claim" -> Claimed
      [] op = "submit" -> Submitted
      [] op = "payout" -> Paid

\* C1, amended: a mined claim, submit or payout is accepted iff it matches
\* claim from Open, submit from Claimed by the claimer before a non-zero
\* deadline has passed, payout from Approved by the claimer, and then moves
\* the task to the next status; a mined approve is accepted iff the task is
\* Submitted, or Approved with the same report CID (a no-op).  Every other
\* transaction is rejected with InvalidState, Unauthorized or
\* DeadlineExceeded and leaves the task unchanged, except that
\* DeadlineExceeded reopens it.  A call that returns without a transaction
\* leaves the task unchanged, and a call returns True only for an accepted
\* transaction or a dry run.
C1_Lifecycle ==
    [][ /\ \A a \in Accounts :
              /\ Mined(a) =>
                    LET op == OperationOf(call[a].fn)
                        err == call'[a].err
                    IN  /\ err = "ok" <=> AcceptedPair(op, task, a, now)
                        /\ err = "ok" => task'.status = StatusAfter(op)
                        /\ err # "ok" =>
                              /\ err \in {"InvalidState", "Unauthorized",
                                          "DeadlineExceeded"}
                              /\ IF err = "DeadlineExceeded"
                                 THEN task'.status = Reopened
                                 ELSE task' = task
              /\ Refused(a) => task' = task
              /\ Returns(a) /\ call'[a].ret =>
                    \/ call'[a].sent /\ call'[a].err = "ok"
                    \/ ~call'[a].sent /\ call'[a].err = "dry_run"
        /\ ApproveMined =>
              /\ approval'.err = "ok" <=>
                    \/ task.status = Submitted
                    \/ /\ task.status = Approved
                       /\ task.verifierReportCID = keccak(approval.report_cid)
              /\ approval'.err = "ok" => task'.status = Approved
              /\ approval'.err # "ok" =>
                    approval'.err = "InvalidState" /\ task' = task
              /\ task.status # Submitted => task' = task ]_vars

\* a payout transaction of an account that is not the claimer was rejected
\* with Unauthorized on the Approved task
C1_Witness ==
    \E a \in Accounts :
        /\ call[a].pc = "done" /\ call[a].fn = "payout"
        /\ call[a].sent /\ call[a].err = "Unauthorized" /\ ~call[a].ret
        /\ task.status = Approved /\ task.claimer # a

(***************************************************************************)
(* C2                                                                      *)
(***************************************************************************)
\* the accounts whose claimTask transaction the ledger accepted
Winners == {a \in Accounts : call[a].sent /\ call[a].err = "ok"}

\* the rejections that say the task was no longer Open: the ledger's
\* InvalidState, or the client's own status test
NotOpenAnswers == {"InvalidState", "not_available"}

\* C2: of two concurrent claim calls on the Open task at most one succeeds,
\* under every interleaving of the status reads and the transactions; the
\* winner is the task's claimer, the task is Claimed, and once both calls
\* have returned without a failed RPC exactly one has won and the other has
\* lost with InvalidState (at the ledger when both transactions were sent).
C2_OneWinner ==
    /\ Cardinality(Winners) <= 1
    /\ Cardinality({a \in Accounts : call[a].pc = "done" /\ call[a].ret}) <= 1
    /\ \A a \in Accounts : call[a].pc = "done" /\ call[a].ret => a \in Winners
    /\ \A a \in Winners : task.status = Claimed /\ task.claimer = a
    /\ Winners = {} => task.status = Open
    /\ (\A a \in Accounts :
            call[a].pc = "done" /\ call[a].err \notin {"exception", "not_found"})
       => /\ Cardinality(Winners) = 1
          /\ \A a \in Accounts \ Winners : call[a].err \in NotOpenAnswers
    /\ (\A a \in Accounts : call[a].pc = "done" /\ call[a].sent)
       => /\ Cardinality(Winners) = 1
          /\ \A a \in Accounts \ Winners :
                call[a].err = "InvalidState" /\ ~call[a].ret

\* both claimTask transactions were mined: one caller won, the other got
\* InvalidState, and the task is Claimed by the winner
C2_Witness ==
    \E w \in Accounts, l \in Accounts :
        /\ w # l
        /\ call[w].pc = "done" /\ call[w].sent /\ call[w].ret
        /\ call[l].pc = "done" /\ call[l].sent /\ call[l].err = "InvalidState"
        /\ task.status = Claimed /\ task.claimer = w

(***************************************************************************)
(* C3                                                                      *)
(***************************************************************************)
\* a's claim call makes its status test in this step
ClaimChecks(a) ==
    call[a].fn \in ClaimFns /\ call[a].pc = "check" /\ call'[a] # call[a]

\* C3: a claimTask transaction mined while the task is Open moves it to
\* Claimed with the caller as claimer; a claim made while the task is not
\* Open fails and does not change the claimer: its transaction is rejected
\* with InvalidState and leaves the task as it was, and a call whose status
\* test finds the task not Open returns False without sending anything.
C3_ClaimOnce ==
    [][ \A a \in Accounts :
           /\ Mined(a) /\ call[a].fn \in ClaimFns =>
                 IF task.status = Open
                 THEN /\ call'[a].err = "ok"
                      /\ task'.status = Claimed
                      /\ task'.claimer = a
                 ELSE /\ call'[a].err = "InvalidState"
                      /\ ~call'[a].ret
                      /\ task' = task
           /\ ClaimChecks(a) /\ task.status # Open =>
                 /\ call'[a].pc = "done"
                 /\ ~call'[a].sent
                 /\ ~call'[a].ret
                 /\ task' = task ]_vars

\* alice's claim was accepted and bob's later claimTask was rejected with
\* InvalidState (Scenario A)
C3_Witness ==
    /\ task.status = Claimed /\ task.claimer = "alice"
    /\ call["alice"].fn = "claim" /\ call["alice"].err = "ok"
    /\ call["bob"].fn = "claim" /\ call["bob"].pc = "done"
    /\ call["bob"].sent /\ call["bob"].err = "InvalidState" /\ ~call["bob"].ret

(***************************************************************************)
(* C4                                                                      *)
(***************************************************************************)
\* the answers of a call stopped by a failed RPC or a failed pin, before it
\* could decide anything about the task
Failures == {"exception", "not_found", "pin_failed"}

\* C4: a submit call on a Claimed task by an account that is not the claimer
\* fails as unauthorized and sends no ledger transaction, on every submit
\* path; a submit transaction of the claimer mined before the deadline has
\* passed is accepted and leaves the task Submitted with the evidence CID of
\* the call.
C4_SubmitByClaimerOnly ==
    [][ \A a \in Accounts :
           /\ /\ call[a].fn \in SubmitFns
              /\ Returns(a)
              /\ call'[a].err \notin Failures
              /\ task.status = Claimed
              /\ task.claimer # a
              => /\ ~call'[a].sent
                 /\ ~call'[a].ret
                 /\ call'[a].err \in {"not_mine", "not_claimer"}
           /\ /\ Mined(a)
              /\ call[a].fn \in SubmitFns
              /\ task.status = Claimed
              /\ task.claimer = a
              /\ ~(task.submitDeadline > 0 /\ now > task.submitDeadline)
              => /\ call'[a].err = "ok"
                 /\ task'.status = Submitted
                 /\ task'.evidenceCID = keccak(call[a].cid) ]_vars

(***************************************************************************)
(* C5                                                                      *)
(***************************************************************************)
\* C5: a submit by the claimer on a Claimed task whose non-zero
\* submit_deadline has passed fails with DeadlineExceeded and the task is
\* Reopened when the call returns; with a submit_deadline of zero a submit
\* never fails on the deadline.
C5_LateSubmitReopens ==
    [][ \A a \in Accounts :
           /\ call[a].fn \in SubmitFns
           /\ Returns(a)
           /\ call'[a].err \notin Failures
           /\ task.status = Claimed
           /\ task.claimer = a
           => IF task.submitDeadline > 0 /\ now > task.submitDeadline
              THEN /\ call'[a].err \in {"DeadlineExceeded", "deadline"}
                   /\ ~call'[a].ret
                   /\ task'.status = Reopened
              ELSE call'[a].err \notin {"DeadlineExceeded", "deadline"} ]_vars

(***************************************************************************)
(* C6                                                                      *)
(***************************************************************************)
\* C6: a second approve with the same report CID leaves the recorded
\* approvals unchanged: the mock ledger never holds two approvals of the
\* same ticket with the same report CID.
C6_ApproveIdempotent ==
    \A i \in DOMAIN oryn.contract_calls, j \in DOMAIN oryn.contract_calls :
        /\ oryn.contract_calls[i].ticket_id = oryn.contract_calls[j].ticket_id
        /\ oryn.contract_calls[i].verifier_report_cid
              = oryn.contract_calls[j].verifier_report_cid
        => i = j

(***************************************************************************)
(* C7                                                                      *)
(***************************************************************************)
\* C7: a payout transaction is sent only for an Approved task and by its
\* claimer, and a mined one moves the task to Paid; a payout call by any
\* other account or in any other state sends no transaction.
C7_PayoutByClaimerOnly ==
    [][ \A a \in Accounts :
           /\ call[a].fn \in PayoutFns
           /\ call[a].pc = "send"
           /\ call'[a].sent
           => /\ task.status = Approved
              /\ task.claimer = a
              /\ task'.status = Paid ]_vars

(***************************************************************************)
(* C8                                                                      *)
(***************************************************************************)
\* C8: in every reachable state the task's claimer is non-empty iff its
\* status is Claimed, Submitted, Approved or Paid, on the ledger and in what
\* both clients' get_task_status return; a task that was claimed, reopened
\* and relisted has an empty claimer again.
C8_ClaimerIffHeld ==
    /\ task.claimer # ZeroAddress
          <=> task.status \in {Claimed, Submitted, Approved, Paid}
    /\ \A a \in Accounts :
          LET status == get_task_status(task, a)
          IN  /\ status.claimer # ZeroAddress
                    <=> status.status \in {"Claimed", "Submitted", "Approved", "Paid"}
              /\ status.is_mine
                    => status.status \in {"Claimed", "Submitted", "Approved", "Paid"}
    /\ LET task_status == registry_get_task_status(task)
       IN  task_status.claimer # ZeroAddress <=> task_status.status_code \in 1..4

\* the task was claimed, reopened after the missed deadline and relisted:
\* it is Open with no claimer, and the claimer's accepted claim is on record
C8_Witness ==
    /\ task.status = Open
    /\ task.claimer = ZeroAddress
    /\ \E a \in Accounts :
          call[a].pc = "done" /\ call[a].fn = "claim" /\ call[a].err = "ok"

(***************************************************************************)
(* C9                                                                      *)
(***************************************************************************)
\* C9: in every reachable state the task's verifier_report_cid is non-empty
\* iff its status is Approved or Paid, on the ledger and in what
\* TaskRegistryClient.get_task_status returns (None for the empty word).
C9_ReportIffApproved ==
    /\ task.verifierReportCID # ZeroBytes32 <=> task.status \in {Approved, Paid}
    /\ LET task_status == registry_get_task_status(task)
       IN  task_status.verifier_report_cid # None
              <=> task_status.status_code \in {Approved, Paid}

\* the service's approveTask was mined and the task was paid out: the report
\* CID it recorded is still there
C9_Witness ==
    /\ task.status = Paid
    /\ approval.state = "mined" /\ approval.err = "ok"
    /\ task.verifierReportCID = keccak(approval.report_cid)
    /\ registry_get_task_status(task).verifier_report_cid # None

(***************************************************************************)
(* C10                                                                     *)
(***************************************************************************)
\* C10: a failed verification never touches the ledger.  The service sends
\* approveTask only for a report whose overall status is pass, and a
\* submission whose report is not pass is finished with nothing sent; the
\* ticket verifier records an approval only for a result that passed; and
\* the Submitted task changes only when an approveTask sent for a passing
\* report is mined.
C10_FailedNeverApproves ==
    [][ /\ svc'.approve_sent /\ ~svc.approve_sent =>
              svc.overall_status = "pass" /\ svc.blockchain
        /\ ~(svc'.mempool \subseteq svc.mempool) =>
              svc.overall_status = "pass" /\ svc'.mempool = svc.mempool \cup {svc.report_cid}
        /\ svc.pc = "pin" /\ svc'.pc # "pin" /\ svc.overall_status # "pass" =>
              /\ svc'.pc = "done"
              /\ ~svc'.approve_sent
              /\ svc'.mempool = svc.mempool
              /\ task' = task
        /\ oryn'.contract_calls # oryn.contract_calls =>
              /\ oryn.result.passed
              /\ oryn'.contract_calls[Len(oryn'.contract_calls)].ticket_id
                    = oryn.result.ticket_id
        /\ ~oryn.result.passed => oryn'.contract_calls = oryn.contract_calls
        /\ task' # task =>
              /\ task.status = Submitted
              /\ task'.status = Approved
              /\ approval'.report_cid \in svc.mempool
              /\ task'.verifierReportCID = keccak(approval'.report_cid) ]_vars

\* the daemon's verification of ticket_001 failed and recorded no approval,
\* the service finished a submission whose report failed without sending
\* anything, and the task is still Submitted
C10_Witness ==
    /\ "ticket_001" \in oryn.processed_tickets
    /\ oryn.result.ticket_id = "ticket_001"
    /\ ~oryn.result.passed
    /\ oryn.returned = "None"
    /\ oryn.contract_calls = <<>>
    /\ svc.pc = "done" /\ svc.blockchain /\ svc.overall_status = "fail"
    /\ svc.report_cid # "" /\ ~svc.approve_sent /\ svc.mempool = {}
    /\ task.status = Submitted

(***************************************************************************)
(* C11                                                                     *)
(***************************************************************************)
\* C11: the report is published before the ledger is called, and a failed
\* publish aborts with a failure: the service sends approveTask only with
\* the non-empty CID that pin_json returned for this submission, and when
\* pin_json returns no CID the submission is finished with False and nothing
\* is sent; the ticket verifier records an approval only with the CID of a
\* report that is in the content store.
C11_PublishBeforeApprove ==
    [][ /\ svc'.approve_sent /\ ~svc.approve_sent =>
              /\ svc.pc = "approve"
              /\ svc.report_cid \in ReportCids
              /\ svc'.mempool = svc.mempool \cup {svc.report_cid}
        /\ svc'.pc = "approve" => svc'.report_cid \in ReportCids
        /\ svc.pc = "pin" /\ svc'.pc # "pin" /\ svc'.report_cid = "" =>
              /\ svc'.pc = "done"
              /\ ~svc'.ret
              /\ ~svc'.approve_sent
              /\ svc'.mempool = svc.mempool
        /\ oryn'.contract_calls # oryn.contract_calls =>
              /\ Len(oryn'.contract_calls) = Len(oryn.contract_calls) + 1
              /\ get_json(oryn'.storage,
                          oryn'.contract_calls[Len(oryn'.contract_calls)]
                              .verifier_report_cid).found
        /\ \A r \in svc'.mempool : r \in ReportCids ]_vars

\* the service aborted a submission whose report could not be pinned, with
\* nothing sent, and the daemon recorded an approval with a published CID
C11_Witness ==
    /\ svc.pc = "done" /\ svc.signed /\ svc.report_cid = ""
    /\ ~svc.ret /\ ~svc.approve_sent /\ svc.mempool = {}
    /\ svc.overall_status = "pass" /\ svc.blockchain
    /\ Len(oryn.contract_calls) = 1
    /\ get_json(oryn.storage, oryn.contract_calls[1].verifier_report_cid).found

(***************************************************************************)
(* C12                                                                     *)
(***************************************************************************)
\* C12: signing precedes publishing on every pipeline path: the service's
\* report is signed when it is handed to pin_json, and every report the
\* ticket verifier has put in the content store carries a non-empty
\* signature and verifier_pubkey.
C12_SignedBeforePublish ==
    /\ svc.pc = "pin" => svc.signed
    /\ svc.report_cid # "" => svc.signed
    /\ \A f \in DOMAIN oryn.storage :
          \A k \in {"signature", "verifier_pubkey"} :
             /\ dict_has(json_load(oryn.storage[f]), k)
             /\ dict_at(json_load(oryn.storage[f]), k) # ""

(***************************************************************************)
(* C13                                                                     *)
(***************************************************************************)
\* the keys of serialized items, in their order
KeysOf(items) == [i \in DOMAIN items |-> items[i][1]]

\* sequence s is strictly ascending in the order of the sorted field names
Ascending(s) ==
    \A i \in DOMAIN s, j \in DOMAIN s :
        i < j =>
            \E m \in DOMAIN SortedKeys, n \in DOMAIN SortedKeys :
                m < n /\ SortedKeys[m] = s[i] /\ SortedKeys[n] = s[j]

\* C13: the bytes that are signed are the report's items in sorted key order
\* without the signature field, whatever the order of the fields, so they are
\* the same for every value of the signature field; and the signature that
\* sign_report leaves in a report verifies against the public key embedded in
\* that report over the serialization re-derived from it, also when an
\* already signed report is signed again.
C13_CanonicalSigning ==
    /\ Ascending(KeysOf(canonical_json(svc.report)))
    /\ \A i \in DOMAIN canonical_json(svc.report) :
          canonical_json(svc.report)[i][1] # "signature"
    /\ \A s \in SignaturesOf(svc.report) \cup {sign(svc.key, <<>>)} :
          canonical_json([svc.report EXCEPT !.signature = s])
             = canonical_json(svc.report)
    /\ json_dumps_sorted(Tail(asdict(svc.report)) \o <<Head(asdict(svc.report))>>)
          = json_dumps_sorted(asdict(svc.report))
    /\ svc.signed =>
          /\ svc.report.verifier_pubkey = get_public_key_hex(svc.key)
          /\ verify_signature(svc.report.verifier_pubkey, svc.report.signature,
                              canonical_json(svc.report))
          /\ sign_report(svc.key, svc.report) = svc.report

\* the signer holding the second key has signed a report with notes: the
\* report carries that key's public key and its signature over the content
C13_Witness ==
    /\ svc.signed
    /\ svc.key = "k2"
    /\ svc.report.notes = "Validation error"
    /\ svc.report.signature = sign("k2", canonical_json(svc.report))
    /\ svc.report.verifier_pubkey = "pub2"

(***************************************************************************)
(* C14                                                                     *)
(***************************************************************************)
\* C14: a failed approve call is retried within the attempt budget.  Every
\* approve_task or approve_ticket_on_chain step is one attempt, so a first
\* attempt that fails leaves the bridge at its approve step for the next
\* attempt: the service does not finish a submission, and the daemon does not
\* leave a passed ticket, on an attempt that sent or recorded nothing.
C14_RetryOnFailure ==
    [][ /\ svc.pc \in ApproveSteps /\ svc'.pc \notin ApproveSteps =>
              svc'.approve_sent
        /\ /\ oryn.stage = "approve"
           /\ oryn.result.passed
           /\ oryn' # oryn
           /\ oryn'.contract_calls = oryn.contract_calls
           => oryn'.stage = "approve" /\ oryn'.i = oryn.i ]_vars

(***************************************************************************)
(* C15                                                                     *)
(***************************************************************************)
\* the ledger holds the task as Approved with the service's report
ApprovedWithReport ==
    task.status = Approved /\ task.verifierReportCID = keccak(svc.report_cid)

\* C15: when the approve call times out with its outcome unknown and the
\* task is already Approved with this report, the bridge finds that by
\* getTask, sends no further approveTask and reports success.
C15_RecheckAfterTimeout ==
    [][ svc.pc = "approve_wait" /\ svc'.pc # "approve_wait" /\ ApprovedWithReport =>
           /\ svc'.pc = "done"
           /\ svc'.ret
           /\ svc'.mempool = svc.mempool ]_vars

(***************************************************************************)
(* C16                                                                     *)
(***************************************************************************)
\* the ticket the daemon's loop is at
CurrentTicket == simulated_submissions[oryn.i].ticket_id

\* the approvals recorded for ticket t
ApprovalsOf(t) ==
    {n \in DOMAIN oryn.contract_calls : oryn.contract_calls[n].ticket_id = t}

\* C16: the daemon adds a ticket to the processed set only in the step that
\* completes approve_ticket_on_chain for it, and the set never shrinks; it
\* starts a verification only for a ticket that is not in the set and has no
\* recorded approval; so over any number of poll cycles each ticket has at
\* most one recorded approval.
C16_ProcessedOnce ==
    [][ /\ oryn.processed_tickets \subseteq oryn'.processed_tickets
        /\ oryn'.processed_tickets # oryn.processed_tickets =>
              /\ oryn.stage = "approve"
              /\ oryn'.returned \in {"tx_hash", "None"}
              /\ oryn'.processed_tickets = oryn.processed_tickets \cup {CurrentTicket}
              /\ oryn.result.ticket_id = CurrentTicket
        /\ oryn.stage = "verify" /\ oryn'.stage = "approve" =>
              /\ CurrentTicket \notin oryn.processed_tickets
              /\ ApprovalsOf(CurrentTicket) = {}
              /\ oryn'.result.ticket_id = CurrentTicket
        /\ oryn'.contract_calls # oryn.contract_calls =>
              /\ oryn.stage = "approve"
              /\ ApprovalsOf(CurrentTicket) = {}
              /\ oryn'.contract_calls[Len(oryn'.contract_calls)].ticket_id = CurrentTicket
        /\ \A t \in {"ticket_001", "ticket_002"} :
              Cardinality({n \in DOMAIN oryn'.contract_calls :
                              oryn'.contract_calls[n].ticket_id = t}) <= 1 ]_vars

\* in a later poll cycle, with both tickets processed and approved once, the
\* daemon has skipped ticket_001 and stands at ticket_002
C16_Witness ==
    /\ oryn.running
    /\ oryn.processed_tickets = {"ticket_001", "ticket_002"}
    /\ oryn.i = 2 /\ oryn.stage = "verify"
    /\ Cardinality(ApprovalsOf("ticket_001")) = 1
    /\ Cardinality(ApprovalsOf("ticket_002")) = 1

(***************************************************************************)
(* C17                                                                     *)
(***************************************************************************)
\* C17: when the verification or the approve call fails for a ticket inside
\* the daemon, the ticket is left unprocessed for the next poll cycle: a
\* ticket whose verification raised, or whose passed result could not be
\* uploaded or approved, is not added to the processed set.
C17_FailedLeftUnprocessed ==
    [][ /\ oryn.stage = "approve"
        /\ oryn'.stage = "verify"
        /\ \/ "error_handling" \in oryn.result.checks_performed
           \/ oryn.result.passed /\ oryn'.returned = "None"
        => CurrentTicket \notin oryn'.processed_tickets ]_vars

(***************************************************************************)
(* C18                                                                     *)
(***************************************************************************)
\* C18: an Exception in a poll cycle does not end a loop.  The step that
\* leaves a cycle of the daemon by an Exception does not change running,
\* running becomes False only by stop() or a user interrupt, and while the
\* daemon is not stopped a failed cycle is followed by a further poll cycle;
\* the service's loop leaves its error handler only to poll again or by a
\* user interrupt, and one of the two follows.
C18_LoopContinues ==
    /\ [][ /\ ~oryn.failed /\ oryn'.failed =>
                 oryn'.running = oryn.running /\ oryn'.ended = oryn.ended
           /\ oryn.running /\ ~oryn'.running =>
                 oryn'.ended \in {"stop", "interrupt"} /\ oryn'.failed = oryn.failed
           /\ svc.loop = "error" => svc'.loop \in {"error", "poll", "interrupted"}
           /\ svc.loop = "poll" => svc'.loop \in {"error", "poll", "interrupted"}
         ]_vars
    /\ (oryn.failed /\ oryn.running /\ oryn.i = 0) ~> (oryn.i = 1 \/ ~oryn.running)
    /\ (svc.loop = "error") ~> (svc.loop \in {"poll", "interrupted"})

\* after a cycle that raised with nothing processed, the running daemon is
\* in a further cycle and has verified ticket_001; the service's loop is in
\* its error handler
C18_Witness ==
    /\ oryn.running /\ oryn.failed
    /\ oryn.i = 1 /\ oryn.stage = "approve"
    /\ oryn.processed_tickets = {}
    /\ svc.loop = "error"

(***************************************************************************)
(* C19                                                                     *)
(***************************************************************************)
\* C19: for a submission whose evidence passes, the pipeline signs the
\* report and calls approve once: every approval the daemon has recorded is
\* the only one of its ticket and carries the CID of a signed report of a
\* passed result, every approveTask the service has sent is for a pass
\* report whose signature verifies, and a task that is Approved holds the
\* CID of a report from a mined approveTask.
C19_PassingSignedApprovedOnce ==
    /\ \A n \in DOMAIN oryn.contract_calls :
          LET approved == oryn.contract_calls[n]
              report == get_json(oryn.storage, approved.verifier_report_cid)
          IN  /\ Cardinality(ApprovalsOf(approved.ticket_id)) = 1
              /\ report.found
              /\ dict_at(report.data, "passed")
              /\ dict_has(report.data, "signature")
              /\ dict_at(report.data, "signature") # ""
    /\ svc.approve_sent =>
          /\ svc.overall_status = "pass"
          /\ svc.report.overall_status = "pass"
          /\ verify_signature(svc.report.verifier_pubkey, svc.report.signature,
                              canonical_json(svc.report))
    /\ task.status = Approved =>
          /\ approval.state = "mined"
          /\ \E r \in ReportCids : task.verifierReportCID = keccak(r)

(***************************************************************************)
(* C20                                                                     *)
(***************************************************************************)
\* C20: the verifier pipeline never calls payout.  Every call the ticket
\* verifier records is an approveTicket; the service puts a transaction in
\* flight only in its approve step, and it is an approveTask: when it is
\* mined the task changes as approveTask changes it; so in every run of the
\* service and the daemon the task is never Paid and changes in no other
\* way.
C20_OnlyApprove ==
    [][ /\ \A n \in DOMAIN oryn'.contract_calls :
              oryn'.contract_calls[n].function = "approveTicket"
        /\ ~(svc'.mempool \subseteq svc.mempool) =>
              /\ svc.pc = "approve"
              /\ svc'.mempool = svc.mempool \cup {svc.report_cid}
        /\ task' # task =>
              \E r \in svc.mempool :
                  /\ task' = approveTask(task, keccak(r)).task
                  /\ svc'.mempool = svc.mempool \ {r}
        /\ task'.status \in {Submitted, Approved}
        /\ task'.claimer = task.claimer ]_vars

\* the service's approveTask was mined and the daemon recorded approvals for
\* both tickets: the task is Approved, not Paid, and still the claimer's
C20_Witness ==
    /\ svc.pc = "done" /\ svc.ret /\ svc.approve_sent /\ svc.mempool = {}
    /\ approval.state = "mined" /\ approval.err = "ok"
    /\ task.status = Approved /\ task.claimer = "alice"
    /\ Len(oryn.contract_calls) = 2
    /\ oryn.processed_tickets = {"ticket_001", "ticket_002"}

(***************************************************************************)
(* C21                                                                     *)
(***************************************************************************)
\* a run of the engine has produced a result from its check results
EngineScored ==
    /\ oryn.engine.step \in {"done", "approved"}
    /\ "error_handling" \notin oryn.result.checks_performed

\* the weight the property gives check n: its check_weights entry, or 0.1
ConfiguredWeight(n) ==
    LET weights == oryn.engine.config.check_weights
    IN  IF n \in DOMAIN weights THEN weights[n] ELSE 10

\* the share of check n in the weighted sum, and in the sum of the weights:
\* nothing when the check was not executed
ScoreShare(n) ==
    IF n \in DOMAIN oryn.engine.checks_results
    THEN oryn.engine.checks_results[n].score * ConfiguredWeight(n)
    ELSE 0

WeightShare(n) ==
    IF n \in DOMAIN oryn.engine.checks_results THEN ConfiguredWeight(n) ELSE 0

WeightedScoreSum ==
    ScoreShare("code_review") + ScoreShare("tests_passing")
       + ScoreShare("documentation") + ScoreShare("security_scan")
       + ScoreShare("accessibility") + ScoreShare("custom_check")

WeightSum ==
    WeightShare("code_review") + WeightShare("tests_passing")
       + WeightShare("documentation") + WeightShare("security_scan")
       + WeightShare("accessibility") + WeightShare("custom_check")

AtOrAboveThreshold ==
    oryn.result.score.num
       >= oryn.engine.config.quality_threshold * oryn.result.score.den

\* the check results with every passed flag set to flag
WithPassedFlags(checks_results, flag) ==
    [n \in DOMAIN checks_results |-> [checks_results[n] EXCEPT !.passed = flag]]

\* C23: the result's passed flag is true iff its overall score is at or
\* above the configured quality_threshold, a score equal to the threshold
\* included; and whatever the checks' own passed flags are, the same scores
\* give the same score and the same passed flag.
C23_PassedIffThreshold ==
    EngineScored =>
        /\ oryn.result.passed <=> AtOrAboveThreshold
        /\ \A flag \in BOOLEAN :
              LET other == VerificationResult(oryn.engine.config, oryn.result.ticket_id,
                               oryn.result.evidence_cid,
                               WithPassedFlags(oryn.engine.checks_results, flag),
                               oryn.result.verification_timestamp)
              IN  other.passed = oryn.result.passed /\ other.score = oryn.result.score

\* one check scored exactly the threshold of 0.7 with its own passed flag
\* false, and the result passed
C23_Witness ==
    /\ EngineScored
    /\ oryn.engine.config.quality_threshold = 70
    /\ DOMAIN oryn.engine.checks_results = {"code_review"}
    /\ oryn.engine.checks_results["code_review"].score = 70
    /\ ~oryn.engine.checks_results["code_review"].passed
    /\ oryn.result.score.num = 70 * oryn.result.score.den
    /\ oryn.result.passed

(***************************************************************************)
(* C24                                                                     *)
(***************************************************************************)
\* the results the property asks for: a check that raises has the result
\* {passed: false, score: 0.0}, every other executed check its own
IsolatedResults(e, spec) ==
    [n \in checks_performed(spec) |->
        IF check_raises(n, e) THEN CheckResult(FALSE, 0)
        ELSE perform_verification_checks(e, spec)[n]]

\* C24: when a check raises, the run is not aborted: its result lists every
\* executed check, the one that raised with score 0 and the others with
\* their own results, and the score is the aggregate over all of them.
C24_CheckFailureIsolated ==
    /\ oryn.engine.step \in {"done", "approved"}
    /\ \E n \in checks_performed(oryn.engine.spec) :
          check_raises(n, oryn.engine.evidence)
    => LET expected == IsolatedResults(oryn.engine.evidence, oryn.engine.spec)
       IN  /\ oryn.result.checks_performed = DOMAIN expected
           /\ oryn.result.score = calculate_overall_score(oryn.engine.config, expected)
           /\ oryn.result.passed
                 = score_passes(oryn.engine.config, oryn.result.score)

(***************************************************************************)
(* C25                                                                     *)
(***************************************************************************)
\* the checks the property asks for: the built-in checks that
\* evidence_requirements marks as required, and the forced ones
RequiredOrForced(spec) ==
    (spec.evidence_requirements \cap CheckNames)
       \cup (IF spec.category = "security" THEN {"security_scan"} ELSE {})
       \cup (IF spec.category = "ui" THEN {"accessibility"} ELSE {})

NonNegativeWeights ==
    \A n \in DOMAIN oryn.engine.checks_results : ConfiguredWeight(n) >= 0

C27_NotFoundSurfaced ==
    oryn.fetched = "not_found" =>
        /\ oryn.result.checks_performed \cap CheckNames = {}
        /\ ~oryn.result.passed
        /\ ApprovalsOf(oryn.result.ticket_id) = {}

(***************************************************************************)
(* C28                                                                     *)
(***************************************************************************)
\* C28: add_json is content-addressed and deterministic, and get_json
\* returns what was put: any two calls of add_json with equal documents,
\* whatever was put between them, returned the same CID, and get_json of
\* every CID add_json has returned finds a document equal to the one put.
C28_ContentAddressed ==
    /\ \A m, n \in DOMAIN oryn.puts :
          dict_eq(oryn.puts[m].data, oryn.puts[n].data) =>
              oryn.puts[m].cid = oryn.puts[n].cid
    /\ \A n \in DOMAIN oryn.puts :
          LET got == get_json(oryn.storage, oryn.puts[n].cid)
          IN  /\ got.found
              /\ dict_eq(got.data, oryn.puts[n].data)

\* a document was put, another one after it, and then the first one again
\* with its items in the other order, and get_json has returned it
C28_Witness ==
    /\ Len(oryn.puts) = 3
    /\ dict_eq(oryn.puts[1].data, oryn.puts[3].data)
    /\ oryn.puts[1].data # oryn.puts[3].data
    /\ ~dict_eq(oryn.puts[1].data, oryn.puts[2].data)
    /\ oryn.puts[1].cid = oryn.puts[3].cid
    /\ oryn.got.found
    /\ dict_eq(oryn.got.data, oryn.puts[1].data)

(***************************************************************************)
(* C29                                                                     *)
(***************************************************************************)
\* the keyword categories in their priority, each with its keywords
CategoryPriority == <<"source_control", "demo", "documentation", "code">>
CategoryWords == [source_control |-> github_words, demo |-> demo_words,
                  documentation |-> documentation_words, code |-> code_words]

\* a deliverable matches a category when it contains one of its keywords
MatchesCategory(deliverable, category) ==
    \E w \in CategoryWords[category] : contains(lower(deliverable), w)

\* the first category in the priority that the deliverable matches, or
\* generic when it matches none
CategoryOf(deliverable) ==
    IF \E n \in DOMAIN CategoryPriority :
          MatchesCategory(deliverable, CategoryPriority[n])
    THEN CategoryPriority[
             CHOOSE n \in DOMAIN CategoryPriority :
                /\ MatchesCategory(deliverable, CategoryPriority[n])
                /\ \A m \in 1..(n - 1) :
                      ~MatchesCategory(deliverable, CategoryPriority[m])]
    ELSE "generic"

\* the field of the evidence map a category is judged by: the pull request,
\* the demo, the file manifest, or any field for generic
FieldNonEmpty(evidence, category) ==
    CASE category = "source_control" -> dict_get_truthy(evidence, "github_pr")
      [] category = "demo" -> dict_get_truthy(evidence, "demo")
      [] category \in {"documentation", "code"} -> dict_get_truthy(evidence, "files")
      [] OTHER -> \E key \in DOMAIN evidence : dict_get_truthy(evidence, key)

\* the evidence a category is judged by in the amended claim: for
\* documentation and code, a file of that kind in the manifest
EvidenceOfCategory(evidence, category) ==
    CASE category = "documentation" ->
             \E n \in DOMAIN packaged_files(evidence) :
                LET path == lower(packaged_files(evidence)[n].path)
                IN  endswith(path, doc_suffixes) \/ contains(path, <<"d", "o", "c">>)
      [] category = "code" ->
             \E n \in DOMAIN packaged_files(evidence) :
                endswith(lower(packaged_files(evidence)[n].path), code_suffixes)
      [] OTHER -> FieldNonEmpty(evidence, category)

\* C29 as stated: every deliverable check is for the deliverable at its
\* place, and its status is provided iff the evidence map has a non-empty
\* field for the first category the deliverable matches, else missing.
C29_AsStated ==
    packager.packaged /\ packager.task_sheet.found =>
        /\ Len(packager.package.deliverables) = Len(packager.task_sheet.deliverables)
        /\ \A n \in DOMAIN packager.package.deliverables :
              LET check == packager.package.deliverables[n]
                  deliverable == packager.task_sheet.deliverables[n]
              IN  /\ check.description = deliverable
                  /\ check.status =
                        IF FieldNonEmpty(packager.package.evidence,
                                         CategoryOf(deliverable))
                        THEN "provided" ELSE "missing"

\* C29: every deliverable check is for the deliverable at its place and is
\* judged against the first category, in the priority source-control, demo,
\* documentation, code, whose keyword the deliverable contains, or generic:
\* its status is provided iff the evidence map has a non-empty pull request
\* (source-control), a non-empty demo (demo), a file manifest that lists a
\* documentation file (documentation) or a code file (code), or any
\* non-empty field (generic), and missing otherwise.
C29_FirstCategoryJudged ==
    packager.packaged /\ packager.task_sheet.found =>
        /\ Len(packager.package.deliverables) = Len(packager.task_sheet.deliverables)
        /\ \A n \in DOMAIN packager.package.deliverables :
              LET check == packager.package.deliverables[n]
                  deliverable == packager.task_sheet.deliverables[n]
              IN  /\ check.description = deliverable
                  /\ check.status =
                        IF EvidenceOfCategory(packager.package.evidence,
                                              CategoryOf(deliverable))
                        THEN "provided" ELSE "missing"

\* a deliverable that matches documentation and, by the "pr" in it,
\* source-control was judged missing for want of a pull request though a
\* documentation file was packaged, and next to it a deliverable of the
\* code category was judged provided
C29_Witness ==
    /\ packager.packaged
    /\ Len(packager.package.deliverables) = 2
    /\ MatchesCategory(packager.task_sheet.deliverables[1], "documentation")
    /\ MatchesCategory(packager.task_sheet.deliverables[1], "source_control")
    /\ Len(doc_files(packaged_files(packager.package.evidence))) > 0
    /\ "github_pr" \notin DOMAIN packager.package.evidence
    /\ packager.package.deliverables[1].status = "missing"
    /\ CategoryOf(packager.task_sheet.deliverables[2]) = "code"
    /\ packager.package.deliverables[2].status = "provided"

(***************************************************************************)
(* C30                                                                     *)
(***************************************************************************)
\* the step in which the daemon's cycle is interrupted
DaemonInterrupted ==
    oryn.running /\ ~oryn'.running /\ oryn'.ended = "interrupt"

C31_OneCheckPerDeliverable ==
    packager.packaged =>
        IF packager.task_sheet.found
        THEN /\ DOMAIN packager.package.deliverables =
                    DOMAIN packager.task_sheet.deliverables
             /\ \A n \in DOMAIN packager.package.deliverables :
                   /\ packager.package.deliverables[n].index = n - 1
                   /\ packager.package.deliverables[n].description =
                          packager.task_sheet.deliverables[n]
                   /\ packager.package.deliverables[n].status
                          \in {"provided", "missing"}
        ELSE packager.package.deliverables = <<>>

\* a package for a sheet of two different deliverables, the first of no
\* keyword category and provided, the second missing
C31_Witness ==
    /\ packager.packaged /\ packager.task_sheet.found
    /\ Len(packager.package.deliverables) = 2
    /\ packager.task_sheet.deliverables[1] # packager.task_sheet.deliverables[2]
    /\ branch_of(packager.task_sheet.deliverables[1]) = "generic"
    /\ packager.package.deliverables[1].status = "provided"
    /\ packager.package.deliverables[2].index = 1
    /\ packager.package.deliverables[2].status = "missing"

(***************************************************************************)
(* C32                                                                     *)
(***************************************************************************)
\* the checks recorded for the submission and those of them that passed
RecordedTotal == svc.checks.github_total + svc.checks.content_total
RecordedPassed == svc.checks.github_passed + svc.checks.content_passed

\* the status the claim gives to the recorded checks
StatusByClaim ==
    IF svc.checks.raised THEN "fail"
    ELSE IF RecordedTotal = 0 THEN "partial"
    ELSE IF RecordedPassed = RecordedTotal THEN "pass"
    ELSE IF 100 * RecordedPassed >= 80 * RecordedTotal THEN "partial"
    ELSE "fail"

\* C32: once the submission is validated, its status is pass iff validation
\* did not raise, at least one check was recorded and all recorded checks
\* passed; it is partial with no check recorded and with at least 80% but
\* not all of them passed, and fail otherwise and whenever validation
\* raised; and approve_task is reached, and an approveTask transaction sent,
\* only for the status pass.
C32_StatusAndApproval ==
    svc.pc # "validate" =>
        /\ svc.overall_status = "pass" <=>
              /\ ~svc.checks.raised
              /\ RecordedTotal >= 1
              /\ RecordedPassed = RecordedTotal
        /\ svc.overall_status = StatusByClaim
        /\ svc.report.overall_status = svc.overall_status
        /\ svc.pc \in ApproveSteps \/ svc.approve_sent \/ svc.mempool # {} =>
              svc.overall_status = "pass"
        /\ task.status = Approved => svc.overall_status = "pass"

\* four of five recorded checks passed, the status is partial, the report
\* is pinned on a service with a blockchain client, and nothing was sent
C32_Witness ==
    /\ svc.pc = "done" /\ svc.blockchain /\ svc.ret
    /\ ~svc.checks.raised
    /\ RecordedTotal = 5 /\ RecordedPassed = 4
    /\ svc.overall_status = "partial"
    /\ svc.report_cid # ""
    /\ ~svc.approve_sent /\ svc.mempool = {}

(***************************************************************************)
(* C33                                                                     *)
(***************************************************************************)
\* a guard of TaskRegistryClient.submit_evidence fails for account a on the
\* ledger as it is: a is not the claimer, the task is not Claimed, or a
\* non-zero submit deadline has passed
GuardFails(a) ==
    \/ task.claimer # a
    \/ task.status # Claimed
    \/ task.submitDeadline > 0 /\ now > task.submitDeadline

\* C33: the step in which TaskRegistryClient.submit_evidence reads the
\* status and tests its guards leaves the ledger as it is; when the status
\* cannot be read or a guard fails the call returns False with no
\* transaction sent, and so it does with dry_run set, except that a dry run
\* whose guards all pass returns True; only a call that is no dry run and
\* whose guards pass goes on to send.
C33_GuardedSubmit ==
    [][ \A a \in Accounts :
          /\ call[a].fn = "registry_submit_evidence"
          /\ call[a].pc = "status"
          /\ call'[a] # call[a]
          => /\ task' = task
             /\ ~call'[a].sent
             /\ call'[a].pc \in {"done", "send"}
             /\ GuardFails(a) \/ call[a].dry => call'[a].pc = "done"
             /\ GuardFails(a) => ~call'[a].ret
             /\ call'[a].pc = "done" /\ call'[a].ret =>
                   call[a].dry /\ ~GuardFails(a)
             /\ call'[a].pc = "done" /\ ~call'[a].ret /\ ~GuardFails(a) =>
                   call'[a].err = "not_found" ]_vars

\* one call returned True from a dry run on a task the caller had claimed,
\* with the task still Claimed and without evidence, and the other
\* account's call returned False because it is not the claimer
C33_Witness ==
    /\ task.status = Claimed /\ task.claimer = "alice"
    /\ task.evidenceCID = ZeroBytes32
    /\ call["alice"].pc = "done" /\ call["alice"].err = "dry_run"
    /\ call["alice"].ret /\ ~call["alice"].sent
    /\ call["bob"].pc = "done" /\ call["bob"].err = "not_claimer"
    /\ ~call["bob"].ret /\ ~call["bob"].sent

(***************************************************************************)
(* C34                                                                     *)
(***************************************************************************)
\* C34: both clients decode the status code of the task alike and as the
\* lifecycle names it: the status reported by the scripts' get_task_status
\* is the one reported by the task-system get_task_status and is the
\* lifecycle's name of the task's state.
C34_SameStatusNames ==
    \A a \in Accounts :
        /\ get_task_status(task, a).status = registry_get_task_status(task).status
        /\ get_task_status(task, a).status_code =
               registry_get_task_status(task).status_code
        /\ registry_get_task_status(task).status =
               CASE task.status = Open -> "Open"
                 [] task.status = Claimed -> "Claimed"
                 [] task.status = Submitted -> "Submitted"
                 [] task.status = Approved -> "Approved"
                 [] task.status = Paid -> "Paid"
                 [] task.status = Reopened -> "Reopened"

(***************************************************************************)
(* C35                                                                     *)
(***************************************************************************)
\* a check of the run raised on the evidence
RunRaised ==
    \E n \in checks_performed(oryn.engine.spec) :
        check_raises(n, oryn.engine.evidence)

\* C35: verify_ticket_evidence returns a result whatever happens: a run in
\* which a check raised ends with a result for its ticket that has passed
\* false, score 0 and error_handling as its only check, every result that
\* lists error_handling is of that kind, and approve_ticket_on_chain on it
\* returns None with nothing uploaded and no contract call.
C35_ErrorResultNotApproved ==
    oryn.engine.step \in {"done", "approved"} =>
        /\ oryn.result # NoResult
        /\ oryn.result.ticket_id = "ticket_001"
        /\ RunRaised => oryn.result.checks_performed = {"error_handling"}
        /\ "error_handling" \in oryn.result.checks_performed =>
              /\ oryn.result.checks_performed = {"error_handling"}
              /\ ~oryn.result.passed
              /\ oryn.result.score.num = 0
              /\ oryn.engine.step = "approved" =>
                    /\ oryn.returned = "None"
                    /\ oryn.storage = EmptyDir
                    /\ oryn.puts = <<>>
                    /\ oryn.contract_calls = <<>>

\* a run whose documentation check raised, under a configuration with
\* threshold 0, was handed to approve_ticket_on_chain, which returned None
C35_Witness ==
    /\ oryn.engine.step = "approved"
    /\ RunRaised
    /\ oryn.engine.config.quality_threshold = 0
    /\ oryn.result.checks_performed = {"error_handling"}
    /\ oryn.returned = "None"
    /\ oryn.contract_calls = <<>>

(***************************************************************************)
(* Task registration (task-system/register_tasks.py)                       *)
(***************************************************************************)
required_fields == {"task_id", "title", "bounty", "deliverables", "definition_of_done"}

\* the file tasks/<task_id>.yaml: absent, or the keys it holds and its token
NoFile == [exists |-> FALSE, fields |-> {}, token |-> ""]
SheetFiles == {NoFile,
               [exists |-> TRUE, fields |-> required_fields, token |-> "ASI"],
               [exists |-> TRUE, fields |-> required_fields, token |-> "XYZ"],
               [exists |-> TRUE, fields |-> required_fields \ {"deliverables"},
                token |-> "ASI"]}
token_addresses == {"ASI"}

\* TaskRegistrationTool.load_task_sheet
registrar_load_task_sheet(file) ==
    IF ~file.exists THEN NoFile   \* None
    ELSE IF \E field \in required_fields : field \notin file.fields THEN NoFile
    ELSE file

\* TaskRegistryClient.task_exists: createdAt != 0, and False when the read raises
task_exists(t, rpc_raises) ==
    IF rpc_raises THEN FALSE ELSE t.createdAt # 0

\* IPFSClient.pin_file: the Hash of the answer, None on a failure
PinAnswers == {"", "QmSheet"}

RegIdle == [fn |-> "none", pc |-> "idle", rpc_raised |-> FALSE, sheet |-> NoFile,
            cid |-> "", dry |-> FALSE, sent |-> FALSE, err |-> "none",
            ret |-> FALSE]

RegReturn(a, r) == [call EXCEPT ![a].pc = "done", ![a].ret = r]

\* register_task up to its existence check
register_task(a) ==
    /\ call[a].pc \in {"idle", "done"}
    /\ \E dry_run \in BOOLEAN, rpc_raises \in BOOLEAN :
          IF task_exists(task, rpc_raises)
          THEN call' = [call EXCEPT ![a] = [RegIdle EXCEPT !.fn = "register_task",
                                                           !.pc = "done",
                                                           !.dry = dry_run]]
          ELSE call' = [call EXCEPT ![a] = [RegIdle EXCEPT !.fn = "register_task",
                                                           !.pc = "load_task_sheet",
                                                           !.dry = dry_run,
                                                           !.rpc_raised = rpc_raises]]
    /\ UNCHANGED <<task, env>>

\* task_sheet = self.load_task_sheet(task_id)
register_task_load(a) ==
    /\ call[a].pc = "load_task_sheet"
    /\ \E file \in SheetFiles :
          LET task_sheet == registrar_load_task_sheet(file)
          IN  IF task_sheet = NoFile THEN call' = RegReturn(a, FALSE)
              ELSE call' = [call EXCEPT ![a].pc = "pin_file",
                                        ![a].sheet = task_sheet]
    /\ UNCHANGED <<task, env>>

\* ipfs_cid = self.ipfs.pin_file(yaml_content)
register_task_pin(a) ==
    /\ call[a].pc = "pin_file"
    /\ \E ipfs_cid \in PinAnswers :
          IF ipfs_cid = "" THEN call' = RegReturn(a, FALSE)
          ELSE call' = [call EXCEPT ![a].pc = "create_task", ![a].cid = ipfs_cid]
    /\ UNCHANGED <<task, env>>

\* TaskRegistryClient.create_task
create_task(a) ==
    /\ call[a].pc = "create_task"
    /\ IF call[a].sheet.token \notin token_addresses
       THEN call' = RegReturn(a, FALSE) /\ UNCHANGED task
       ELSE IF call[a].dry
       THEN call' = RegReturn(a, TRUE) /\ UNCHANGED task
       ELSE LET receipt == createTask(task)
            IN  /\ task' = receipt.task
                /\ call' = [call EXCEPT ![a].pc = "done", ![a].sent = TRUE,
                                        ![a].err = receipt.err,
                                        ![a].ret = (receipt.err = "ok")]
    /\ UNCHANGED env

RegisterInit ==
    /\ packager = PackagerIdle
    /\ task = NoTask
    /\ now = 0
    /\ submitWindow \in SubmitWindows
    /\ call = [a \in Accounts |-> RegIdle]
    /\ approval = NoReceipt
    /\ svc = SvcIdle
    /\ oryn = OrynInit

RegisterNext ==
    \E a \in Accounts :
       \/ register_task(a)
       \/ register_task_load(a)
       \/ register_task_pin(a)
       \/ create_task(a)

RegisterSpec == RegisterInit /\ [][RegisterNext]_vars

\* a createTask transaction of a goes out in this step
CreateTaskSent(a) == ~call[a].sent /\ call'[a].sent

\* C36: createTask is called only when the existence check found no task,
\* the sheet loaded with every required field and the pin gave a non-empty
\* CID; when one of the steps fails, createTask is never called
C36_CreateOnlyAfterChecks ==
    [][\A a \in Accounts :
          CreateTaskSent(a) =>
             /\ ~call[a].rpc_raised
             /\ call[a].sheet.exists
             /\ required_fields \subseteq call[a].sheet.fields
             /\ call[a].cid # ""]_vars

(***************************************************************************)
(* C37                                                                     *)
(***************************************************************************)
\* the report at hand after one call of sign_report, and after a second call
SignedOnce == sign_report(svc.key, svc.report)
SignedTwice == sign_report(svc.key, SignedOnce)

\* C37: sign_report writes the signer's public key into the report before it
\* serializes, so the signed bytes hold every field but signature, with
\* verifier_pubkey the signer's key; signing a signed report again with the
\* same key signs the same bytes and leaves verifier_pubkey and signature
\* as they are
C37_SignIdempotent ==
    /\ SignedOnce.verifier_pubkey = get_public_key_hex(svc.key)
    /\ SignedOnce.signature = sign(svc.key, canonical_json(SignedOnce))
    /\ {SignedOnce.signature.over[i][1] : i \in DOMAIN SignedOnce.signature.over}
          = DOMAIN svc.report \ {"signature"}
    /\ \E i \in DOMAIN SignedOnce.signature.over :
          SignedOnce.signature.over[i]
             = <<"verifier_pubkey", get_public_key_hex(svc.key)>>
    /\ SignedTwice.signature.over = SignedOnce.signature.over
    /\ SignedTwice = SignedOnce
    /\ svc.signed => SignedOnce = svc.report

\* a partial report of M1-T002 after the signer holding k1 has signed it
C37_Witness ==
    /\ svc.signed
    /\ svc.key = "k1"
    /\ svc.report.task_id = "M1-T002"
    /\ svc.report.overall_status = "partial"
    /\ svc.report.verifier_pubkey = "pub1"
    /\ svc.report.signature = sign("k1", canonical_json(svc.report))

(***************************************************************************)
(* C38                                                                     *)
(***************************************************************************)
SubmitWorkflows == {"submit_workflow", "tool_submit_evidence"}

\* a's call reaches program point p in this step
Enters(a, p) == call[a].pc # p /\ call'[a].pc = p

\* C38: the submit workflow runs status check, package, pin and on-chain
\* submit in this order and stops at the first failing step: the pin is
\* reached only from a status check that reported the task Claimed by the
\* caller, the submit only from a pin that returned a CID, and a
\* transaction goes out only from the submit step
C38_CheckPackagePinSubmit ==
    [][\A a \in Accounts :
          call'[a].fn \in SubmitWorkflows \/ call[a].fn \in SubmitWorkflows =>
             /\ Enters(a, "pin") /\ call'[a].fn \in SubmitWorkflows =>
                   /\ call[a].fn = call'[a].fn
                   /\ call[a].pc = "status"
                   /\ submit_workflow_guard(get_task_status(task, a)) = "go"
             /\ Enters(a, "send") =>
                   /\ call[a].pc = "pin"
                   /\ call'[a].cid \in EvidenceCids
             /\ ~call[a].sent /\ call'[a].sent =>
                   /\ call[a].pc = "send"
                   /\ call[a].cid \in EvidenceCids]_vars

====
